---- MODULE Spec2Model ----
(***************************************************************************)
(* Model of the streaming response coordinator of the voice-assistant      *)
(* backend: backend/text_processor.py (process_text, send_to_tts,          *)
(* split_into_sentences, clean_for_tts), the generation endpoint in        *)
(* backend/llm_service.py and the fact store in backend/memory_manager.py. *)
(*                                                                         *)
(* Text is a sequence of one-character strings.  One behaviour is one turn *)
(* of process_text on one client connection, together with its             *)
(* environment: the client connection, the generation endpoint and the     *)
(* model backend behind it, and the concurrently running synthesis tasks.  *)
(*                                                                         *)
(* Three components are also specified on their own: the segmenter of the  *)
(* feed loop over any chunks (SpecSeg), a ConversationManager of            *)
(* backend/conversation_manager.py under any calls of its methods          *)
(* (SpecCM), and the SessionManager of the same file (SpecSM).             *)
(***************************************************************************)
EXTENDS Integers, Sequences, FiniteSets, TLC

\* ------------------------------------------------------------------------
\* Bounds of the model
\* ------------------------------------------------------------------------

\* Largest number of lines the generation stream delivers in one turn.
MaxLines == 3

\* Token chunks the generation stream may deliver (message.content values).
Chunks == { <<"a", ".", " ", "a">>, <<" ">>, <<"*">> }

\* User utterances of the turn (payload["text"]); the first is blank.
UserTexts == { <<" ">>, <<"h", "i">> }

\* ------------------------------------------------------------------------
\* Text helpers (Python str / re semantics)
\* ------------------------------------------------------------------------

\* Whitespace characters (regex class s, removed by str.strip()).
Whitespace == {" ", "\n", "\t"}

\* Sentence-terminal punctuation of the look-behind.
Terminal == {".", "?", "!"}

\* The backquote character (written as a two-letter token: the TLA+ lexer
\* accepts no backquote inside a string).
Backquote == "bq"

\* Markdown markers removed by the first re.sub of clean_for_tts.
Markers == {"*", Backquote, "#", "_"}

RECURSIVE LStrip(_)
LStrip(s) ==
    IF s # <<>> /\ Head(s) \in Whitespace THEN LStrip(Tail(s)) ELSE s

RECURSIVE RStrip(_)
RStrip(s) ==
    IF s # <<>> /\ s[Len(s)] \in Whitespace
    THEN RStrip(SubSeq(s, 1, Len(s) - 1))
    ELSE s

\* str.strip()
strip(s) == RStrip(LStrip(s))

\* Position i of t is a whitespace character preceded by a terminal one.
SplitAt(t, i) == i > 1 /\ t[i] \in Whitespace /\ t[i - 1] \in Terminal

\* re.split of split_into_sentences on t: the pieces between the matches,
\* scanning from position i with the current piece cur.  The empty match of
\* the second alternative at the end of t yields a trailing empty piece.
RECURSIVE re_split(_, _, _)
re_split(t, i, cur) ==
    IF i > Len(t)
    THEN IF Len(t) > 0 /\ t[Len(t)] \in Terminal
         THEN <<cur, <<>>>>
         ELSE <<cur>>
    ELSE IF SplitAt(t, i)
         THEN <<cur>> \o re_split(t, i + 1, <<>>)
         ELSE re_split(t, i + 1, Append(cur, t[i]))

\* split_into_sentences(text)
split_into_sentences(text) ==
    IF text = <<>>
    THEN <<>>
    ELSE LET pieces   == re_split(strip(text), 1, <<>>)
             stripped == [i \in 1..Len(pieces) |-> strip(pieces[i])]
             NonEmpty(p) == p # <<>>
         IN  SelectSeq(stripped, NonEmpty)

\* first re.sub of clean_for_tts: drop the markers
RemoveMarkers(text) ==
    LET Keep(c) == c \notin Markers IN SelectSeq(text, Keep)

\* No newline in t[a..b] (the regex dot does not match a newline).
NoNewline(t, a, b) == \A k \in a..b : t[k] # "\n"

\* Ends j of the lazy display-text group of a markdown link starting at i.
LinkCloses(t, i) ==
    { j \in (i + 1)..(Len(t) - 2) :
        /\ t[j] = "]"
        /\ t[j + 1] = "("
        /\ NoNewline(t, i + 1, j - 1)
        /\ \E k \in (j + 2)..Len(t) : t[k] = ")" /\ NoNewline(t, j + 2, k - 1) }

Min(S) == CHOOSE x \in S : \A y \in S : x <= y

\* second re.sub of clean_for_tts: links collapse to their display text.
RECURSIVE CollapseLinks(_, _)
CollapseLinks(t, i) ==
    IF i > Len(t)
    THEN <<>>
    ELSE IF t[i] = "[" /\ LinkCloses(t, i) # {}
         THEN LET j == Min(LinkCloses(t, i))
                  k == Min({ m \in (j + 2)..Len(t) : t[m] = ")" })
              IN  SubSeq(t, i + 1, j - 1) \o CollapseLinks(t, k + 1)
         ELSE <<t[i]>> \o CollapseLinks(t, i + 1)

\* text.replace(newline, space)
ReplaceNewlines(t) == [i \in 1..Len(t) |-> IF t[i] = "\n" THEN " " ELSE t[i]]

\* text.replace(two spaces, one space): one left-to-right pass over non-overlapping pairs.
RECURSIVE ReplaceDoubleSpace(_, _)
ReplaceDoubleSpace(t, i) ==
    IF i > Len(t)
    THEN <<>>
    ELSE IF i < Len(t) /\ t[i] = " " /\ t[i + 1] = " "
         THEN <<" ">> \o ReplaceDoubleSpace(t, i + 2)
         ELSE <<t[i]>> \o ReplaceDoubleSpace(t, i + 1)

\* clean_for_tts(text)
clean_for_tts(text) ==
    IF text = <<>>
    THEN <<>>
    ELSE LET t1 == RemoveMarkers(text)
             t2 == CollapseLinks(t1, 1)
             t3 == ReplaceDoubleSpace(ReplaceNewlines(t2), 1)
         IN  strip(t3)

\* Concatenation of a sequence of texts.
RECURSIVE Flatten(_)
Flatten(ss) == IF ss = <<>> THEN <<>> ELSE Head(ss) \o Flatten(Tail(ss))


\* ------------------------------------------------------------------------
\* conversation_manager.py: ConversationManager
\*
\* The content of a message is a record of its text and of the number of
\* characters of that text; a history is a sequence of messages
\* [role, content]; a session is the record of the attributes of a
\* ConversationManager.
\* ------------------------------------------------------------------------

\* MAX_HISTORY_TOKENS, at its default.
MAX_HISTORY_TOKENS == 2000

\* MAX_HISTORY_PAIRS, configured to two pairs.
MAX_HISTORY_PAIRS == 2

\* DEFAULT_SYSTEM_PROMPTS: the prompt of each mode, with its length.
DEFAULT_SYSTEM_PROMPTS ==
    [ default      |-> [text |-> "prompt default", chars |-> 152],
      casual       |-> [text |-> "prompt casual", chars |-> 94],
      tech_support |-> [text |-> "prompt tech_support", chars |-> 109],
      concise      |-> [text |-> "prompt concise", chars |-> 72] ]

\* DEFAULT_SYSTEM_PROMPTS.get(mode, DEFAULT_SYSTEM_PROMPTS["default"])
PromptOrDefault(mode) ==
    IF mode \in DOMAIN DEFAULT_SYSTEM_PROMPTS
    THEN DEFAULT_SYSTEM_PROMPTS[mode]
    ELSE DEFAULT_SYSTEM_PROMPTS["default"]

\* The modes requested in the model: two that have a prompt, one that has
\* none.
Modes == {"default", "concise", "pirate"}

\* The length, in characters, of a short message.
ShortChars == 8

\* The length of a long message: with the prompt of mode default it is over
\* the token budget, with the prompt of mode concise it is not.
LongChars == 7880

\* The lengths of the messages added in the model.
MessageChars == {ShortChars, LongChars}

\* The n-th message added to a session, of the given length.
Message(n, chars) == [text |-> ToString(n), chars |-> chars]

\* A history entry.
Entry(role, content) == [role |-> role, content |-> content]

\* get_encoding() when the tokenizer is not available.
get_encoding == "approximate"

\* ConversationManager(session_id, mode) constructed at time t.
ConversationManager(session_id, mode, t) ==
    [ session_id           |-> session_id,
      mode                 |-> mode,
      system_prompt        |-> PromptOrDefault(mode),
      conversation_history |-> << Entry("system", PromptOrDefault(mode)) >>,
      last_activity_time   |-> t,
      encoding             |-> get_encoding ]

\* count_tokens with the approximate count: four characters per token,
\* rounded down.
count_tokens(content) == content.chars \div 4

\* get_total_tokens on history h.
RECURSIVE get_total_tokens(_)
get_total_tokens(h) ==
    IF h = <<>> THEN 0 ELSE count_tokens(Head(h).content) + get_total_tokens(Tail(h))

\* list.pop at position i (positions counted from 1).
Pop(h, i) == SubSeq(h, 1, i - 1) \o SubSeq(h, i + 1, Len(h))

\* One round of the first loop of trim_history: pop(1), and pop(1) again if
\* more than one entry is left.
TokenRound(h) ==
    LET h1 == Pop(h, 2) IN IF Len(h1) > 1 THEN Pop(h1, 2) ELSE h1

\* Faulty variant of TokenLoop: one round only.
TokenLoop_Once(h) ==
    IF get_total_tokens(h) > MAX_HISTORY_TOKENS /\ Len(h) > 3
    THEN Pop(Pop(h, 2), 2)
    ELSE h

\* Faulty variant of TokenLoop: the entries are removed from the head of the
\* history.
RECURSIVE TokenLoop_FromHead(_)
TokenLoop_FromHead(h) ==
    IF get_total_tokens(h) > MAX_HISTORY_TOKENS /\ Len(h) > 3
    THEN TokenLoop_FromHead(Pop(Pop(h, 1), 1))
    ELSE h

\* The first loop of trim_history: while the history is over the token
\* budget and has more than three entries, the entry after the system prompt
\* is removed, and then the entry that took its place.
RECURSIVE TokenLoop(_)
TokenLoop(h) ==
    IF get_total_tokens(h) > MAX_HISTORY_TOKENS /\ Len(h) > 3
    THEN LET h1 == Pop(h, 2)
         IN  TokenLoop(IF Len(h1) > 1 THEN Pop(h1, 2) ELSE h1)
    ELSE h

\* The user messages of history h.
UserCount(h) == Cardinality({i \in 1..Len(h) : h[i].role = "user"})

\* Position of the first user message of h.
FirstUser(h) == Min({i \in 1..Len(h) : h[i].role = "user"})

\* One round of the second loop of trim_history: the first user message is
\* removed, and with it the entry that follows it if that is an assistant
\* message.
RemoveOldestPair(h) ==
    LET i  == FirstUser(h)
        h1 == Pop(h, i)
    IN  IF i <= Len(h1) /\ h1[i].role = "assistant" THEN Pop(h1, i) ELSE h1

\* Faulty variant of PairLoop: one pair too many is kept.
RECURSIVE PairLoop_OffByOne(_)
PairLoop_OffByOne(h) ==
    IF UserCount(h) > MAX_HISTORY_PAIRS + 1
    THEN PairLoop_OffByOne(RemoveOldestPair(h))
    ELSE h

\* The second loop of trim_history: while there are more user messages than
\* MAX_HISTORY_PAIRS, the oldest pair is removed.
RECURSIVE PairLoop(_)
PairLoop(h) ==
    IF UserCount(h) > MAX_HISTORY_PAIRS
    THEN PairLoop(RemoveOldestPair(h))
    ELSE h

\* Faulty variant of trim_history: the token budget is not enforced.
trim_history_PairsOnly(h) == IF Len(h) <= 1 THEN h ELSE PairLoop(h)

\* trim_history on history h.
trim_history(h) == IF Len(h) <= 1 THEN h ELSE PairLoop(TokenLoop(h))

\* trim_history on session s.
Trimmed(s) == [s EXCEPT !.conversation_history = trim_history(@)]

\* add_user_message(message) on session s at time t.
add_user_message(s, message, t) ==
    Trimmed([s EXCEPT !.conversation_history = Append(@, Entry("user", message)),
                      !.last_activity_time = t])

\* add_assistant_message(message) on session s at time t.
add_assistant_message(s, message, t) ==
    Trimmed([s EXCEPT !.conversation_history = Append(@, Entry("assistant", message)),
                      !.last_activity_time = t])

\* Faulty variant of change_mode: the history is left as it is.
change_mode_AttributeOnly(s, new_mode) ==
    IF new_mode \in DOMAIN DEFAULT_SYSTEM_PROMPTS
    THEN [s EXCEPT !.mode = new_mode,
                   !.system_prompt = DEFAULT_SYSTEM_PROMPTS[new_mode]]
    ELSE s

\* change_mode(new_mode) on session s.
change_mode(s, new_mode) ==
    IF new_mode \in DOMAIN DEFAULT_SYSTEM_PROMPTS
    THEN LET prompt == DEFAULT_SYSTEM_PROMPTS[new_mode]
             h == s.conversation_history
         IN  [s EXCEPT !.mode = new_mode,
                       !.system_prompt = prompt,
                       !.conversation_history =
                           IF h # <<>> /\ h[1].role = "system"
                           THEN [h EXCEPT ![1].content = prompt]
                           ELSE << Entry("system", prompt) >> \o h]
    ELSE s

\* clear_history(keep_system_prompt) on session s.
clear_history(s, keep_system_prompt) ==
    LET h == s.conversation_history
    IN  [s EXCEPT !.conversation_history =
            IF keep_system_prompt /\ h # <<>> /\ h[1].role = "system"
            THEN << h[1] >>
            ELSE << Entry("system", s.system_prompt) >>]

\* Faulty variant of is_inactive: a session idle for exactly the timeout is
\* inactive.
is_inactive_AtTimeout(s, timeout_seconds, t) ==
    (t - s.last_activity_time) >= timeout_seconds

\* is_inactive(timeout_seconds) on session s at time t.
is_inactive(s, timeout_seconds, t) == (t - s.last_activity_time) > timeout_seconds

\* to_dict on session s.
to_dict(s) ==
    [ session_id           |-> s.session_id,
      mode                 |-> s.mode,
      system_prompt        |-> s.system_prompt,
      conversation_history |-> s.conversation_history,
      last_activity_time   |-> s.last_activity_time ]

\* Faulty variant of from_dict: the time of the last activity is the time of
\* construction.
from_dict_Fresh(data, t) ==
    [ ConversationManager(data.session_id, data.mode, t) EXCEPT
          !.system_prompt = data.system_prompt,
          !.conversation_history = data.conversation_history ]

\* from_dict(data) called at time t: a session is constructed for the id and
\* the mode, and its prompt, history and activity time are overwritten.
from_dict(data, t) ==
    [ ConversationManager(data.session_id, data.mode, t) EXCEPT
          !.system_prompt = data.system_prompt,
          !.conversation_history = data.conversation_history,
          !.last_activity_time = data.last_activity_time ]


\* ------------------------------------------------------------------------
\* conversation_manager.py: SessionManager
\*
\* The sessions are a function from session ids to sessions, as the
\* dictionary SessionManager.sessions is.
\* ------------------------------------------------------------------------

\* SessionManager.cleanup_interval
cleanup_interval == 3600

\* Registry reg with session s under key sid.
Put(reg, sid, s) ==
    [k \in DOMAIN reg \cup {sid} |-> IF k = sid THEN s ELSE reg[k]]

\* Faulty variant of get_session: a session is constructed at every call.
get_session_Always(reg, session_id, mode, t) ==
    Put(reg, session_id, ConversationManager(session_id, mode, t))

\* The sessions after get_session(session_id, mode) at time t.
get_session(reg, session_id, mode, t) ==
    IF session_id \notin DOMAIN reg
    THEN Put(reg, session_id, ConversationManager(session_id, mode, t))
    ELSE reg

\* The sessions after a sweep that runs at time t: the inactive ones are
\* popped.
Swept(reg, timeout_seconds, t) ==
    LET inactive_sessions ==
            {sid \in DOMAIN reg : is_inactive(reg[sid], timeout_seconds, t)}
    IN  [sid \in DOMAIN reg \ inactive_sessions |-> reg[sid]]

\* The data save_sessions writes for registry reg.
Saved(reg) == [sid \in DOMAIN reg |-> to_dict(reg[sid])]

\* The sessions after load_sessions of the data at time t: every session of
\* the data is set, the other sessions stay.
Loaded(reg, data, t) ==
    [sid \in DOMAIN reg \cup DOMAIN data |->
        IF sid \in DOMAIN data THEN from_dict(data[sid], t) ELSE reg[sid]]


\* ------------------------------------------------------------------------
\* State of one turn and of its environment
\* ------------------------------------------------------------------------

VARIABLES
    pc,                 \* position of process_text
    user_text,          \* payload["text"]
    stream_id,          \* stream id of the turn
    connected,          \* the client connection is up: websocket.send_json succeeds
    llm,                \* what the generation endpoint answered / how its stream went
    backend,            \* the model backend behind the generation endpoint
    linesRead,          \* lines of the generation stream consumed so far
    skippedAt,          \* history: chunks received before the first unparsable line, -1 if none
    rxChunks,           \* the non-empty token chunks received, in arrival order
    full_response,      \* accumulator of the whole response
    sentence_buffer,    \* rolling buffer of the segmenter
    tts_tasks,          \* the synthesis tasks created, in creation order
    tts_sent_count,     \* sequence counter of the segments
    resolveOrder,       \* the resolved tasks (positions in tts_tasks), in the
                        \* order in which they resolved
    audio_results,      \* what asyncio.gather returned
    resultIdx,          \* position of the delivery loop in audio_results
    tts_error_occurred, \* flag of the delivery loop
    sendLog,            \* every websocket.send_json attempted, in order
    facts,              \* the user's conversation facts (memory_manager)
    outcome,            \* how the turn ended
    seg_chunks,         \* segmenter alone: the chunks fed so far, in order
    seg_buffer,         \* segmenter alone: the rolling buffer (sentence_buffer)
    seg_sentences,      \* segmenter alone: the sentences handed on so far
    seg_flushed,        \* segmenter alone: the final flush has run
    now,                \* the clock: what time.time() returns
    cm,                 \* one ConversationManager used on its own
    cm_n,               \* messages added to cm so far
    cm_op,              \* the last method called on cm
    cm_prev,            \* cm as it was before that call
    cm_scn,             \* short messages added to cm so far, if they are all
                        \* that happened to its history and alternate from a
                        \* user message on; -1 otherwise
    sessions,           \* SessionManager.sessions
    last_cleanup,       \* SessionManager.last_cleanup
    file,               \* the sessions file written by save_sessions
    sm_op,              \* the last method called on the SessionManager
    sm_prev,            \* sessions as they were before that call
    writer,             \* a client that holds a session it got from the
                        \* SessionManager and adds a message to it
    cleaning,           \* clean_for_tts used on its own: a text, followed by
                        \* what clean_for_tts made of it, applied again and again
    inbox,              \* connections: the messages each client has sent and
                        \* the receive loop has not read yet
    connState,          \* connections: per connection, the turns started so
                        \* far and the turns in progress
    events,             \* connections: the events sent on each connection, in order
    stored,             \* fact store alone: the facts file of one user
    adders,             \* fact store alone: per process, the add call in progress
    gen                 \* generate endpoint alone: the request and what was made of it

vars == << pc, user_text, stream_id, connected, llm, backend, linesRead, skippedAt,
           rxChunks, full_response, sentence_buffer, tts_tasks, tts_sent_count,
           resolveOrder, audio_results, resultIdx, tts_error_occurred, sendLog,
           facts, outcome, seg_chunks, seg_buffer, seg_sentences,
           seg_flushed, now, cm, cm_n, cm_op, cm_prev, cm_scn, sessions,
           last_cleanup, file, sm_op, sm_prev, writer, cleaning, inbox, connState,
           events, stored, adders, gen >>

\* State of the segmenter driven alone.
segVars == << seg_chunks, seg_buffer, seg_sentences, seg_flushed >>

\* State of the components that a turn of process_text leaves alone.
libVars == << segVars, now, cm, cm_n, cm_op, cm_prev, cm_scn, sessions,
             last_cleanup, file, sm_op, sm_prev, writer, cleaning, inbox, connState,
             events, stored, adders, gen >>

\* State of the client connections of websocket_endpoint.
connVars == << inbox, connState, events >>

\* The client connections.
Connections == {"c1", "c2"}

\* State of the fact store used on its own.
factVars == << stored, adders >>

\* State of the functions and components checked on their own.
extVars == << cleaning, connVars, factVars, gen >>

\* State that the connections leave alone, the turn of process_text apart.
libVarsButConn == << segVars, now, cm, cm_n, cm_op, cm_prev, cm_scn, sessions,
                    last_cleanup, file, sm_op, sm_prev, writer, cleaning,
                    stored, adders, gen >>

\* State of the ConversationManager used on its own.
cmVars == << cm, cm_n, cm_op, cm_prev, cm_scn >>

\* State of the SessionManager.
smVars == << sessions, last_cleanup, file, sm_op, sm_prev >>

\* A method call: its name, the session it is about, its argument.
Call(name, sid, arg) == [name |-> name, sid |-> sid, arg |-> arg]

\* SessionManager.sessions after construction.
NoSessions == [sid \in {} |-> sid]

\* The sessions file before it is first written.
NoFile == [exists |-> FALSE, data |-> NoSessions]

\* Variables of the environment that process_text only reads.
envVars == << user_text, stream_id, llm, backend >>

\* Local variables of the streaming loop.
streamVars == << linesRead, skippedAt, rxChunks, full_response, sentence_buffer,
                 tts_sent_count >>

\* Local variables of the delivery loop.
deliverVars == << audio_results, resultIdx, tts_error_occurred >>

\* Facts stored for the user before the turn.
PriorFacts ==
    << [type |-> "user", content |-> <<"o">>],
       [type |-> "assistant", content |-> <<"k">>] >>

\* ------------------------------------------------------------------------
\* Client events
\* ------------------------------------------------------------------------

\* One event handed to websocket.send_json.  text is the chunk of a
\* text_chunk and the full_response of a stream_end; part is the segment
\* number of a tts_audio; msg tells the error notifications apart.
Event(type, mid, text, part, msg) ==
    [type |-> type, mid |-> mid, text |-> text, part |-> part, msg |-> msg,
     ok |-> TRUE]

\* websocket.send_json(ev): the attempt is logged; it raises when the
\* connection is down.
SendAttempt(log, conn, ev) == Append(log, [ev EXCEPT !.ok = conn])

\* send_error_message(websocket, message): one send attempt, whose own
\* failure is caught and logged.
send_error_message(log, conn, msg) ==
    SendAttempt(log, conn, Event("error", "none", <<>>, -1, msg))

\* ------------------------------------------------------------------------
\* Fact store (memory_manager)
\* ------------------------------------------------------------------------

add_user_fact(fs, content) ==
    Append(fs, [type |-> "user", content |-> content])

add_assistant_fact(fs, content) ==
    Append(fs, [type |-> "assistant", content |-> content])

\* ------------------------------------------------------------------------
\* Synthesis tasks
\* ------------------------------------------------------------------------

\* Faulty variant of NewTask: the counter is not used for the part id.
NewTask_Unnumbered(sentence, n, mid) ==
    [text |-> sentence, part |-> 0, mid |-> mid, state |-> "Pending"]

\* asyncio.create_task(send_to_tts(client, sentence, part_id, message_id))
NewTask(sentence, n, mid) ==
    [text |-> sentence, part |-> n, mid |-> mid, state |-> "Pending"]

\* What the synthesis collaborator does with one request.
TtsReplies ==
    {"audio", "no_audio", "request_error", "status_error", "exception"}

\* Faulty variant of send_to_tts: the request is made whatever the cleaned text.
send_to_tts_NoSkip(text, reply) ==
    IF reply = "audio" THEN "Ready"
    ELSE IF reply \in {"no_audio", "request_error", "status_error"} THEN "None"
    ELSE "Exc"

\* send_to_tts: the value a task resolves to.  Ready is the tts_audio
\* payload, None is the return value None, Exc is an exception that
\* escapes the coroutine (neither RequestError nor HTTPStatusError).
send_to_tts(text, reply) ==
    IF clean_for_tts(text) = <<>> THEN "None"
    ELSE IF reply = "audio" THEN "Ready"
    ELSE IF reply \in {"no_audio", "request_error", "status_error"} THEN "None"
    ELSE "Exc"

\* The result of a resolved task, as asyncio.gather hands it over.
ResultOf(task) == [kind |-> task.state, part |-> task.part, mid |-> task.mid]

\* Faulty variant of gather: the results in the order of completion.
gather_AsCompleted(tasks, order) ==
    [i \in 1..Len(tasks) |-> ResultOf(tasks[order[i]])]

\* asyncio.gather(*tts_tasks, return_exceptions=True): the results in the
\* order of the tasks, whatever the order of completion was.
gather(tasks, order) == [i \in 1..Len(tasks) |-> ResultOf(tasks[i])]

TurnIdle ==
    /\ pc = "idle"
    /\ user_text \in UserTexts
    /\ stream_id = "none"
    /\ connected = TRUE
    /\ llm = "none"
    /\ backend = "ok"
    /\ linesRead = 0
    /\ skippedAt = -1
    /\ rxChunks = <<>>
    /\ full_response = <<>>
    /\ sentence_buffer = <<>>
    /\ tts_tasks = <<>>
    /\ tts_sent_count = 0
    /\ resolveOrder = <<>>
    /\ audio_results = <<>>
    /\ resultIdx = 1
    /\ tts_error_occurred = FALSE
    /\ sendLog = <<>>
    /\ facts = PriorFacts
    /\ outcome = "none"

\* The segmenter before its first chunk.
SegIdle ==
    /\ seg_chunks = <<>>
    /\ seg_buffer = <<>>
    /\ seg_sentences = <<>>
    /\ seg_flushed = FALSE

\* A ConversationManager constructed for the given mode at time 0.
CmCreated(mode) ==
    /\ cm = ConversationManager("s1", mode, 0)
    /\ cm_n = 0
    /\ cm_op = Call("__init__", "s1", mode)
    /\ cm_prev = cm
    /\ cm_scn = 0

\* The SessionManager constructed at time 0.
SmCreated ==
    /\ sessions = NoSessions
    /\ last_cleanup = 0
    /\ file = NoFile
    /\ sm_op = Call("__init__", "none", "none")
    /\ sm_prev = sessions

\* The client holds no session.
WriterIdle ==
    writer = [pc |-> "idle", sid |-> "none", attached |-> FALSE,
              obj |-> ConversationManager("none", "default", 0)]

\* The connections as accepted: nothing received, no turn, nothing sent.
ConnAccepted ==
    /\ inbox = [c \in Connections |-> <<>>]
    /\ connState = [c \in Connections |->
                       [received |-> 0, turns |-> 0, open |-> {}]]
    /\ events = [c \in Connections |-> <<>>]

\* The processes that write the facts file: the generation service
\* (add_user_fact in generate_endpoint) and the connection backend
\* (add_assistant_fact in process_text).
Processes == {"llm_service", "backend"}

\* The facts file does not exist yet (read as the empty list) and no add
\* call is in progress.
FactsIdle ==
    /\ stored = [valid |-> TRUE, facts |-> <<>>]
    /\ adders = [p \in Processes |->
                    [pc |-> "idle", added |-> 0, facts |-> <<>>]]

\* No request has reached the generate endpoint.
NoRequest ==
    gen = [stage |-> "none", received |-> <<>>, messages |-> <<>>,
           injected |-> <<>>]

\* Nothing has been given to the functions checked on their own.
ExtIdle == cleaning = <<>> /\ ConnAccepted /\ FactsIdle /\ NoRequest

Init ==
    /\ TurnIdle
    /\ SegIdle
    /\ now = 0
    /\ CmCreated("default")
    /\ SmCreated
    /\ WriterIdle
    /\ ExtIdle


\* ------------------------------------------------------------------------
\* process_text
\* ------------------------------------------------------------------------

\* The turn is over: process_text returns.
Finish(o) == pc' = "done" /\ outcome' = o

\* Blank user text: the message is ignored.
IgnoreEmptyText ==
    /\ pc = "idle"
    /\ strip(user_text) = <<>>
    /\ Finish("ignored")
    /\ UNCHANGED << libVars, envVars, connected, streamVars, tts_tasks, resolveOrder,
                    deliverVars, sendLog, facts >>

\* The stream id is drawn and the request to the generation endpoint built.
BeginTurn ==
    /\ pc = "idle"
    /\ strip(user_text) # <<>>
    /\ stream_id' = "stream_1"
    /\ pc' = "connect"
    /\ UNCHANGED << libVars, user_text, llm, backend, connected, streamVars, tts_tasks,
                    resolveOrder, deliverVars, sendLog, facts, outcome >>

\* client.stream(...) raises httpx.RequestError: the generation endpoint
\* cannot be reached.
LlmConnectFail ==
    /\ pc = "connect"
    /\ llm' = "connect_error"
    /\ sendLog' = send_error_message(sendLog, connected, "llm_connect")
    /\ Finish("errored")
    /\ UNCHANGED << libVars, user_text, stream_id, backend, connected, streamVars,
                    tts_tasks, resolveOrder, deliverVars, facts >>

\* Faulty variant of LlmStatusError: no return after the error message.
LlmStatusError_NoReturn(recorded) ==
    /\ pc = "connect"
    /\ llm' = "status_error"
    /\ facts' = IF recorded THEN add_user_fact(facts, user_text) ELSE facts
    /\ sendLog' = send_error_message(sendLog, connected, "llm_status")
    /\ pc' = "opened"
    /\ UNCHANGED << libVars, user_text, stream_id, backend, connected, streamVars,
                    tts_tasks, resolveOrder, deliverVars, outcome >>

\* The generation endpoint answers with a status other than 200.  Its
\* handler may have recorded the user message before it failed.
LlmStatusError(recorded) ==
    /\ pc = "connect"
    /\ llm' = "status_error"
    /\ facts' = IF recorded THEN add_user_fact(facts, user_text) ELSE facts
    /\ sendLog' = send_error_message(sendLog, connected, "llm_status")
    /\ Finish("errored")
    /\ UNCHANGED << libVars, user_text, stream_id, backend, connected, streamVars,
                    tts_tasks, resolveOrder, deliverVars >>

\* The generation endpoint answers 200: generate_endpoint has recorded the
\* user message and streams stream_llm_chat.
LlmStatusOk ==
    /\ pc = "connect"
    /\ llm' = "streaming"
    /\ facts' = add_user_fact(facts, user_text)
    /\ pc' = "opened"
    /\ UNCHANGED << libVars, user_text, stream_id, backend, connected, streamVars,
                    tts_tasks, resolveOrder, deliverVars, sendLog, outcome >>

\* stream_start is sent; a failed send is an exception that reaches the
\* outer handler, which sends an error message.
SendStreamStart ==
    /\ pc = "opened"
    /\ LET log1 == SendAttempt(sendLog, connected,
                       Event("stream_start", stream_id, <<>>, -1, "none"))
       IN  IF connected
           THEN /\ sendLog' = log1
                /\ pc' = "streaming"
                /\ UNCHANGED outcome
           ELSE /\ sendLog' = send_error_message(log1, connected, "unexpected")
                /\ Finish("errored")
    /\ UNCHANGED << libVars, envVars, connected, streamVars, tts_tasks, resolveOrder,
                    deliverVars, facts >>

\* A line of the stream that changes nothing: blank, not JSON, or JSON
\* without message.content.
SkipLine ==
    /\ pc = "streaming"
    /\ backend = "ok"
    /\ linesRead < MaxLines
    /\ linesRead' = linesRead + 1
    /\ UNCHANGED << libVars, pc, envVars, connected, skippedAt, rxChunks,
                    full_response, sentence_buffer, tts_tasks, tts_sent_count,
                    resolveOrder, deliverVars, sendLog, facts, outcome >>

\* "if not line.strip(): continue"
ReadBlankLine == SkipLine

\* Faulty variant of ReadMalformedLine: the parse error reaches the outer handler
\* and ends the turn.
ReadMalformedLine_Abort ==
    /\ pc = "streaming"
    /\ backend = "ok"
    /\ linesRead < MaxLines
    /\ linesRead' = linesRead + 1
    /\ skippedAt' = IF skippedAt = -1 THEN Len(rxChunks) ELSE skippedAt
    /\ sendLog' = send_error_message(sendLog, connected, "unexpected")
    /\ Finish("errored")
    /\ UNCHANGED << libVars, envVars, connected, rxChunks, full_response,
                    sentence_buffer, tts_tasks, tts_sent_count, resolveOrder,
                    deliverVars, facts >>

\* The line is not JSON (json.loads raises JSONDecodeError) or is JSON of
\* another shape (data.get or the += raises): logged, the loop goes on.
\* skippedAt remembers where in the stream the first such line came.
ReadMalformedLine ==
    /\ pc = "streaming"
    /\ backend = "ok"
    /\ linesRead < MaxLines
    /\ linesRead' = linesRead + 1
    /\ skippedAt' = IF skippedAt = -1 THEN Len(rxChunks) ELSE skippedAt
    /\ UNCHANGED << libVars, pc, envVars, connected, rxChunks, full_response,
                    sentence_buffer, tts_tasks, tts_sent_count, resolveOrder,
                    deliverVars, sendLog, facts, outcome >>

\* A well-formed line whose message.content is empty or absent.
ReadEmptyContentLine == SkipLine

\* Faulty variant of Accumulate: assignment instead of +=.
Accumulate_Overwrite(full, chunk) == chunk

\* full_response += chunk
Accumulate(full, chunk) == full \o chunk

\* Faulty variant of DispatchAll: the last two sentences are left out.
DispatchAll_ButTwo(sentences, n, mid) ==
    [i \in 1..(Len(sentences) - 2) |-> NewTask(sentences[i], n + i - 1, mid)]

\* The tasks created for the sentences but the last one, numbered from n.
DispatchAll(sentences, n, mid) ==
    [i \in 1..(Len(sentences) - 1) |-> NewTask(sentences[i], n + i - 1, mid)]

\* Faulty variant of ReadChunk: every synthesis task is awaited where it is created,
\* so the next chunk is read only when no task is unresolved.
ReadChunk_AwaitEach(c) ==
    /\ pc = "streaming"
    /\ \A i \in 1..Len(tts_tasks) : tts_tasks[i].state # "Pending"
    /\ backend = "ok"
    /\ linesRead < MaxLines
    /\ linesRead' = linesRead + 1
    /\ rxChunks' = Append(rxChunks, c)
    /\ full_response' = Accumulate(full_response, c)
    /\ sendLog' = SendAttempt(sendLog, connected,
                      Event("text_chunk", stream_id, c, -1, "none"))
    /\ LET buf       == sentence_buffer \o c
           sentences == split_into_sentences(buf)
       IN  IF connected /\ Len(sentences) > 1
           THEN /\ tts_tasks' = tts_tasks \o
                        DispatchAll(sentences, tts_sent_count, stream_id)
                /\ tts_sent_count' = tts_sent_count + Len(sentences) - 1
                /\ sentence_buffer' = sentences[Len(sentences)]
           ELSE /\ sentence_buffer' = buf
                /\ UNCHANGED << tts_tasks, tts_sent_count >>
    /\ UNCHANGED << libVars, pc, envVars, connected, skippedAt, resolveOrder,
                    deliverVars, facts, outcome >>

\* A line with a non-empty chunk: accumulate, relay, segment, dispatch.
\* A failed relay raises inside the inner try: the rest of the iteration
\* is skipped and the loop goes on with the next line.
ReadChunk(c) ==
    /\ pc = "streaming"
    /\ backend = "ok"
    /\ linesRead < MaxLines
    /\ linesRead' = linesRead + 1
    /\ rxChunks' = Append(rxChunks, c)
    /\ full_response' = Accumulate(full_response, c)
    /\ sendLog' = SendAttempt(sendLog, connected,
                      Event("text_chunk", stream_id, c, -1, "none"))
    /\ LET buf       == sentence_buffer \o c
           sentences == split_into_sentences(buf)
       IN  IF connected /\ Len(sentences) > 1
           THEN /\ tts_tasks' = tts_tasks \o
                        DispatchAll(sentences, tts_sent_count, stream_id)
                /\ tts_sent_count' = tts_sent_count + Len(sentences) - 1
                /\ sentence_buffer' = sentences[Len(sentences)]
           ELSE /\ sentence_buffer' = buf
                /\ UNCHANGED << tts_tasks, tts_sent_count >>
    /\ UNCHANGED << libVars, pc, envVars, connected, skippedAt, resolveOrder,
                    deliverVars, facts, outcome >>

\* The model backend fails (unreachable, non-200, or broken mid-stream):
\* stream_llm_chat yields one line {"error": ...} inside the 200 response
\* and ends.  The line has no message.content.
ReadBackendError ==
    /\ pc = "streaming"
    /\ backend = "ok"
    /\ linesRead < MaxLines
    /\ backend' = "failed"
    /\ linesRead' = linesRead + 1
    /\ UNCHANGED << libVars, pc, user_text, stream_id, llm, connected, skippedAt,
                    rxChunks, full_response, sentence_buffer, tts_tasks, tts_sent_count,
                    resolveOrder, deliverVars, sendLog, facts, outcome >>

\* Faulty variant of AfterStream: the stream_end block sits inside "if tts_tasks".
AfterStream_EndInsideIf(tasks) == IF tasks # <<>> THEN "gather" ELSE "done"

\* Where process_text goes after the streaming loop.
AfterStream(tasks) == IF tasks # <<>> THEN "gather" ELSE "stream_end"

\* Faulty variant of EndOfStream: the remainder of the buffer is dropped.
EndOfStream_NoFlush ==
    /\ pc = "streaming"
    /\ llm' = "ended"
    /\ pc' = AfterStream(tts_tasks)
    /\ UNCHANGED << libVars, user_text, stream_id, backend, connected, streamVars,
                    tts_tasks, resolveOrder, deliverVars, sendLog, facts, outcome >>

\* The stream ends: the remaining buffer is flushed as a last segment.
EndOfStream ==
    /\ pc = "streaming"
    /\ llm' = "ended"
    /\ IF strip(sentence_buffer) # <<>>
       THEN /\ tts_tasks' = Append(tts_tasks,
                    NewTask(strip(sentence_buffer), tts_sent_count, stream_id))
            /\ tts_sent_count' = tts_sent_count + 1
       ELSE UNCHANGED << tts_tasks, tts_sent_count >>
    /\ pc' = AfterStream(tts_tasks')
    /\ UNCHANGED << libVars, user_text, stream_id, backend, connected, linesRead,
                    skippedAt, rxChunks, full_response, sentence_buffer, resolveOrder,
                    deliverVars, sendLog, facts, outcome >>

\* Reading the stream raises httpx.RequestError: the outer handler sends
\* an error message.
StreamFail ==
    /\ pc = "streaming"
    /\ llm' = "stream_failed"
    /\ sendLog' = send_error_message(sendLog, connected, "llm_connect")
    /\ Finish("errored")
    /\ UNCHANGED << libVars, user_text, stream_id, backend, connected, streamVars,
                    tts_tasks, resolveOrder, deliverVars, facts >>

\* Faulty variant of Gather: gather without return_exceptions, so the exception of
\* a task is raised in process_text and reaches the outer handler.
Gather_Propagate ==
    /\ pc = "gather"
    /\ \A i \in 1..Len(tts_tasks) : tts_tasks[i].state # "Pending"
    /\ IF \E i \in 1..Len(tts_tasks) : tts_tasks[i].state = "Exc"
       THEN /\ sendLog' = send_error_message(sendLog, connected, "unexpected")
            /\ Finish("errored")
            /\ UNCHANGED deliverVars
       ELSE /\ audio_results' = gather(tts_tasks, resolveOrder)
            /\ resultIdx' = 1
            /\ tts_error_occurred' = FALSE
            /\ pc' = "deliver"
            /\ UNCHANGED << sendLog, outcome >>
    /\ UNCHANGED << libVars, envVars, connected, streamVars, tts_tasks, resolveOrder,
                    facts >>

\* Faulty variant of Gather: the results are taken as soon as the first task has
\* resolved.
Gather_FirstCompleted ==
    /\ pc = "gather"
    /\ \E i \in 1..Len(tts_tasks) : tts_tasks[i].state # "Pending"
    /\ audio_results' = gather(tts_tasks, resolveOrder)
    /\ resultIdx' = 1
    /\ tts_error_occurred' = FALSE
    /\ pc' = "deliver"
    /\ UNCHANGED << libVars, envVars, connected, streamVars, tts_tasks, resolveOrder,
                    sendLog, facts, outcome >>

\* await asyncio.gather(...) returns once every task has resolved.
Gather ==
    /\ pc = "gather"
    /\ \A i \in 1..Len(tts_tasks) : tts_tasks[i].state # "Pending"
    /\ audio_results' = gather(tts_tasks, resolveOrder)
    /\ resultIdx' = 1
    /\ tts_error_occurred' = FALSE
    /\ pc' = "deliver"
    /\ UNCHANGED << libVars, envVars, connected, streamVars, tts_tasks, resolveOrder,
                    sendLog, facts, outcome >>

\* Faulty variant of AfterDeliver: the flag is never looked at.
AfterDeliver_NeverWarn(flag) == "stream_end"

\* Where process_text goes after the delivery loop.
AfterDeliver(flag) == IF flag THEN "warn" ELSE "stream_end"

\* Faulty variant of LoopStep: the loop never leaves its first result.
LoopStep_NoAdvance(idx, flag) ==
    /\ resultIdx' = resultIdx
    /\ tts_error_occurred' = flag
    /\ pc' = "deliver"
    /\ UNCHANGED audio_results

\* The delivery loop moves to position idx with the flag at flag.
LoopStep(idx, flag) ==
    /\ resultIdx' = idx
    /\ tts_error_occurred' = flag
    /\ pc' = IF idx > Len(audio_results) THEN AfterDeliver(flag) ELSE "deliver"
    /\ UNCHANGED audio_results

\* The result is an exception: logged and flagged.
DeliverException ==
    /\ pc = "deliver"
    /\ audio_results[resultIdx].kind = "Exc"
    /\ LoopStep(resultIdx + 1, TRUE)
    /\ UNCHANGED << libVars, envVars, connected, streamVars, tts_tasks, resolveOrder,
                    sendLog, facts, outcome >>

\* The result is an audio payload: it is sent; a failed send breaks the loop.
DeliverAudio ==
    /\ pc = "deliver"
    /\ audio_results[resultIdx].kind = "Ready"
    /\ sendLog' = SendAttempt(sendLog, connected,
                      Event("tts_audio", audio_results[resultIdx].mid, <<>>,
                            audio_results[resultIdx].part, "none"))
    /\ LoopStep(IF connected THEN resultIdx + 1 ELSE Len(audio_results) + 1,
                tts_error_occurred)
    /\ UNCHANGED << libVars, envVars, connected, streamVars, tts_tasks, resolveOrder,
                    facts, outcome >>

\* Faulty variant of DeliverMissing: the warning is sent at the position of the
\* failed segment.
DeliverMissing_WarnInPlace ==
    /\ pc = "deliver"
    /\ audio_results[resultIdx].kind = "None"
    /\ sendLog' = send_error_message(sendLog, connected, "tts_warning")
    /\ LoopStep(resultIdx + 1, tts_error_occurred)
    /\ UNCHANGED << libVars, envVars, connected, streamVars, tts_tasks, resolveOrder,
                    facts, outcome >>

\* The result is None: flagged.
DeliverMissing ==
    /\ pc = "deliver"
    /\ audio_results[resultIdx].kind = "None"
    /\ LoopStep(resultIdx + 1, TRUE)
    /\ UNCHANGED << libVars, envVars, connected, streamVars, tts_tasks, resolveOrder,
                    sendLog, facts, outcome >>

\* The one warning about failed segments.
SendTtsWarning ==
    /\ pc = "warn"
    /\ sendLog' = send_error_message(sendLog, connected, "tts_warning")
    /\ pc' = "stream_end"
    /\ UNCHANGED << libVars, envVars, connected, streamVars, tts_tasks, resolveOrder,
                    deliverVars, facts, outcome >>

\* Faulty variant of Commit: no "if full_response" guard.
Commit_Unguarded(fs, full) == add_assistant_fact(fs, full)

\* The facts after the stream_end send returned.
Commit(fs, full) == IF full # <<>> THEN add_assistant_fact(fs, full) ELSE fs

\* Faulty variant of SendStreamEnd: the response is recorded before the send.
SendStreamEnd_CommitFirst ==
    /\ pc = "stream_end"
    /\ facts' = Commit(facts, full_response)
    /\ LET log1 == SendAttempt(sendLog, connected,
                       Event("stream_end", stream_id, full_response, -1, "none"))
       IN  IF connected
           THEN /\ sendLog' = log1
                /\ Finish("completed")
           ELSE /\ sendLog' = send_error_message(log1, connected, "unexpected")
                /\ Finish("errored")
    /\ UNCHANGED << libVars, envVars, connected, streamVars, tts_tasks, resolveOrder,
                    deliverVars >>

\* stream_end is sent and the response recorded; a failed send is an
\* exception that reaches the outer handler.
SendStreamEnd ==
    /\ pc = "stream_end"
    /\ LET log1 == SendAttempt(sendLog, connected,
                       Event("stream_end", stream_id, full_response, -1, "none"))
       IN  IF connected
           THEN /\ sendLog' = log1
                /\ facts' = Commit(facts, full_response)
                /\ Finish("completed")
           ELSE /\ sendLog' = send_error_message(log1, connected, "unexpected")
                /\ Finish("errored")
                /\ UNCHANGED facts
    /\ UNCHANGED << libVars, envVars, connected, streamVars, tts_tasks, resolveOrder,
                    deliverVars >>

\* ------------------------------------------------------------------------
\* Environment
\* ------------------------------------------------------------------------

\* Task i resolves, at any point after its creation.
TtsResolve(i, reply) ==
    /\ tts_tasks[i].state = "Pending"
    /\ tts_tasks' = [tts_tasks EXCEPT
                        ![i].state = send_to_tts(tts_tasks[i].text, reply)]
    /\ resolveOrder' = Append(resolveOrder, i)
    /\ UNCHANGED << libVars, pc, envVars, connected, streamVars, deliverVars, sendLog,
                    facts, outcome >>

\* The client connection drops.
ClientDisconnect ==
    /\ pc # "done"
    /\ connected
    /\ connected' = FALSE
    /\ UNCHANGED << libVars, pc, envVars, streamVars, tts_tasks, resolveOrder, deliverVars,
                    sendLog, facts, outcome >>

Next ==
    \/ IgnoreEmptyText
    \/ BeginTurn
    \/ LlmConnectFail
    \/ \E recorded \in BOOLEAN : LlmStatusError(recorded)
    \/ LlmStatusOk
    \/ SendStreamStart
    \/ ReadBlankLine
    \/ ReadMalformedLine
    \/ ReadEmptyContentLine
    \/ \E c \in Chunks : ReadChunk(c)
    \/ ReadBackendError
    \/ EndOfStream
    \/ StreamFail
    \/ Gather
    \/ DeliverException
    \/ DeliverAudio
    \/ DeliverMissing
    \/ SendTtsWarning
    \/ SendStreamEnd
    \/ \E i \in 1..Len(tts_tasks) : \E reply \in TtsReplies : TtsResolve(i, reply)
    \/ ClientDisconnect

Spec == Init /\ [][Next]_vars


\* ------------------------------------------------------------------------
\* The segmenter driven alone: the feed loop and the final flush of
\* process_text on a connection that stays up, for any sequence of chunks
\* ------------------------------------------------------------------------

\* Longest sequence of chunks fed to the segmenter.
MaxSegChunks == 3

\* The chunks fed: every text of one or two characters over a letter, a
\* terminal and a blank, and one chunk that ends a sentence with its blank.
SegChunks ==
    LET Alphabet == {"a", ".", " "}
    IN  { <<x>> : x \in Alphabet }
            \cup { <<x, y>> : x \in Alphabet, y \in Alphabet }
            \cup { <<"a", ".", " ">> }

\* The turn of process_text stays where construction left it.
turnVars == << pc, user_text, stream_id, connected, llm, backend, linesRead, skippedAt,
               rxChunks, full_response, sentence_buffer, tts_tasks,
               tts_sent_count, resolveOrder, audio_results, resultIdx,
               tts_error_occurred, sendLog, facts, outcome >>

\* Faulty variant of KeepRemainder: the buffer is emptied after a dispatch.
KeepRemainder_Drop(sentences) == <<>>

\* The buffer after a dispatch: the last sentence of the split.
KeepRemainder(sentences) == sentences[Len(sentences)]

\* One iteration of the feed loop on chunk c: the buffer grows by c, is split,
\* every sentence but the last is handed on, and the last one is retained.
SegFeed(c) ==
    /\ ~seg_flushed
    /\ Len(seg_chunks) < MaxSegChunks
    /\ seg_chunks' = Append(seg_chunks, c)
    /\ LET buf == seg_buffer \o c
           sentences == split_into_sentences(buf)
       IN  IF Len(sentences) > 1
           THEN /\ seg_sentences' =
                       seg_sentences \o SubSeq(sentences, 1, Len(sentences) - 1)
                /\ seg_buffer' = KeepRemainder(sentences)
           ELSE /\ seg_buffer' = buf
                /\ UNCHANGED seg_sentences
    /\ UNCHANGED << turnVars, extVars, writer, now, cmVars, smVars, seg_flushed >>

\* The final flush: what the buffer holds, stripped, is handed on if it is
\* not blank.
SegFlush ==
    /\ ~seg_flushed
    /\ seg_flushed' = TRUE
    /\ seg_sentences' = IF strip(seg_buffer) # <<>>
                        THEN Append(seg_sentences, strip(seg_buffer))
                        ELSE seg_sentences
    /\ UNCHANGED << turnVars, extVars, writer, now, cmVars, smVars, seg_chunks, seg_buffer >>

InitSeg == Init /\ user_text = <<"h", "i">>

NextSeg ==
    \/ \E c \in SegChunks : SegFeed(c)
    \/ SegFlush

SpecSeg == InitSeg /\ [][NextSeg]_vars


\* ------------------------------------------------------------------------
\* One ConversationManager used on its own: any sequence of calls of its
\* methods, as time passes
\* ------------------------------------------------------------------------

\* Most messages added to the session.
MaxMessages == 6

\* Longest time the clock reaches, in steps of ClockStep.
MaxTicks == 2

\* The clock advances in steps of half an hour.
ClockStep == 1800

\* Time passes.
Tick ==
    /\ now < MaxTicks * ClockStep
    /\ now' = now + ClockStep
    /\ UNCHANGED << turnVars, extVars, writer, segVars, cmVars, smVars >>

\* A call on cm: what it leaves alone, and the record of the call.
CmCall(name, arg) ==
    /\ cm_op' = Call(name, cm.session_id, arg)
    /\ cm_prev' = cm
    /\ UNCHANGED << turnVars, extVars, writer, segVars, now, smVars >>

\* The count of the alternating short messages after one more message: the
\* message continues the alternation if it is short and its role is due
\* (turn 0 for a user message, 1 for an assistant message).
Alternation(scn, turn, chars) ==
    IF scn >= 0 /\ scn % 2 = turn /\ chars = ShortChars THEN scn + 1 ELSE -1

\* cm.add_user_message(message)
CmAddUserMessage(chars) ==
    /\ cm_n < MaxMessages
    /\ cm_n' = cm_n + 1
    /\ cm' = add_user_message(cm, Message(cm_n + 1, chars), now)
    /\ cm_scn' = Alternation(cm_scn, 0, chars)
    /\ CmCall("add_user_message", ToString(cm_n + 1))

\* cm.add_assistant_message(message)
CmAddAssistantMessage(chars) ==
    /\ cm_n < MaxMessages
    /\ cm_n' = cm_n + 1
    /\ cm' = add_assistant_message(cm, Message(cm_n + 1, chars), now)
    /\ cm_scn' = Alternation(cm_scn, 1, chars)
    /\ CmCall("add_assistant_message", ToString(cm_n + 1))

\* cm.trim_history()
CmTrimHistory ==
    /\ cm' = Trimmed(cm)
    /\ CmCall("trim_history", "none")
    /\ UNCHANGED << cm_n, cm_scn >>

\* cm.change_mode(new_mode)
CmChangeMode(new_mode) ==
    /\ cm' = change_mode(cm, new_mode)
    /\ CmCall("change_mode", new_mode)
    /\ UNCHANGED << cm_n, cm_scn >>

\* cm.clear_history(keep_system_prompt)
CmClearHistory(keep_system_prompt) ==
    /\ cm' = clear_history(cm, keep_system_prompt)
    /\ CmCall("clear_history", IF keep_system_prompt THEN "keep" ELSE "fresh")
    /\ cm_scn' = -1
    /\ UNCHANGED cm_n

\* The session is constructed for any of the modes.
InitCM ==
    /\ TurnIdle /\ user_text = <<"h", "i">>
    /\ SegIdle
    /\ now = 0
    /\ \E mode \in Modes : CmCreated(mode)
    /\ SmCreated
    /\ WriterIdle
    /\ ExtIdle

NextCM ==
    \/ \E chars \in MessageChars : CmAddUserMessage(chars)
    \/ \E chars \in MessageChars : CmAddAssistantMessage(chars)
    \/ CmTrimHistory
    \/ \E new_mode \in Modes : CmChangeMode(new_mode)
    \/ \E keep_system_prompt \in BOOLEAN : CmClearHistory(keep_system_prompt)
    \/ Tick

SpecCM == InitCM /\ [][NextCM]_vars


\* ------------------------------------------------------------------------
\* The SessionManager: calls of its methods and activity on its sessions,
\* as time passes and the process restarts
\* ------------------------------------------------------------------------

\* The session ids used in the model.
SessionIds == {"s1", "s2"}

\* The modes requested of the SessionManager: one that has a prompt, one
\* that has none.
SmModes == {"concise", "pirate"}

\* The timeouts passed to cleanup_inactive_sessions: half an hour, and the
\* default.
Timeouts == {1800, 3600}

\* A call on the SessionManager: what it leaves alone, and the record of the
\* call.
SmCall(name, sid, arg) ==
    /\ sm_op' = Call(name, sid, arg)
    /\ sm_prev' = sessions
    /\ UNCHANGED << turnVars, extVars, writer, segVars, now, cmVars >>

\* The model follows the clients of the registry until the sessions are
\* first saved; from then on the registry is swept, saved, loaded and
\* constructed anew.
InUse == ~file.exists

\* session_manager.get_session(session_id, mode)
SmGetSession(session_id, mode) ==
    /\ InUse
    /\ sessions' = get_session(sessions, session_id, mode, now)
    /\ SmCall("get_session", session_id, mode)
    /\ UNCHANGED << last_cleanup, file >>

\* A user message is added to a session of the registry.
SmAddUserMessage(session_id) ==
    /\ session_id \in DOMAIN sessions
    /\ InUse
    /\ sessions' = [sessions EXCEPT ![session_id] =
                        add_user_message(@, Message(0, ShortChars), now)]
    /\ SmCall("add_user_message", session_id, "0")
    /\ UNCHANGED << last_cleanup, file >>

\* Faulty variant of TooEarly: the interval is not looked at.
TooEarly_Never(current_time, last) == FALSE

\* The test that opens cleanup_inactive_sessions: the interval since the last
\* sweep is not over.
TooEarly(current_time, last) == current_time - last < cleanup_interval

\* cleanup_inactive_sessions(timeout_seconds) before the interval is over:
\* it returns at once.
SmCleanupNotDue(timeout_seconds) ==
    /\ TooEarly(now, last_cleanup)
    /\ SmCall("cleanup_inactive_sessions not due", "none", ToString(timeout_seconds))
    /\ UNCHANGED << sessions, last_cleanup, file >>

\* cleanup_inactive_sessions(timeout_seconds) when the interval is over: the
\* sweep runs.
SmCleanup(timeout_seconds) ==
    /\ ~TooEarly(now, last_cleanup)
    /\ sessions' = Swept(sessions, timeout_seconds, now)
    /\ last_cleanup' = now
    /\ SmCall("cleanup_inactive_sessions", "none", ToString(timeout_seconds))
    /\ UNCHANGED file

\* save_sessions(file_path)
SmSaveSessions ==
    /\ file' = [exists |-> TRUE, data |-> Saved(sessions)]
    /\ SmCall("save_sessions", "none", "none")
    /\ UNCHANGED << sessions, last_cleanup >>

\* load_sessions(file_path)
SmLoadSessions ==
    /\ sessions' = IF file.exists THEN Loaded(sessions, file.data, now)
                                  ELSE sessions
    /\ SmCall("load_sessions", "none", "none")
    /\ UNCHANGED << last_cleanup, file >>

\* The process restarts: the module constructs a new SessionManager.
SmRestart ==
    /\ sessions' = NoSessions
    /\ last_cleanup' = now
    /\ SmCall("__init__", "none", "none")
    /\ UNCHANGED file

InitSM == Init /\ user_text = <<"h", "i">>

NextSM ==
    \/ \E session_id \in SessionIds : \E mode \in SmModes :
           SmGetSession(session_id, mode)
    \/ \E session_id \in SessionIds : SmAddUserMessage(session_id)
    \/ \E timeout_seconds \in Timeouts : SmCleanupNotDue(timeout_seconds)
    \/ \E timeout_seconds \in Timeouts : SmCleanup(timeout_seconds)
    \/ SmSaveSessions
    \/ SmLoadSessions
    \/ SmRestart
    \/ Tick

SpecSM == InitSM /\ [][NextSM]_vars


\* ------------------------------------------------------------------------
\* A client of the SessionManager against the sweep: the client gets a
\* session, and later adds a message to the session it got, while other
\* clients get sessions, sweeps are called and time passes
\* ------------------------------------------------------------------------

\* The message the client adds.
WriterMessage == Message(0, ShortChars)

\* A call in this setting: what it leaves alone, and the record of the call.
RaceCall(name, sid, arg) ==
    /\ sm_op' = Call(name, sid, arg)
    /\ sm_prev' = sessions
    /\ UNCHANGED << turnVars, extVars, segVars, now, cmVars, file >>

\* The client calls session_manager.get_session(session_id, mode) and keeps
\* the session returned.
RaceGetSession(session_id, mode) ==
    /\ sessions' = get_session(sessions, session_id, mode, now)
    /\ writer' = [pc |-> "holding", sid |-> session_id, attached |-> TRUE,
                  obj |-> sessions'[session_id]]
    /\ RaceCall("get_session", session_id, mode)
    /\ UNCHANGED last_cleanup

\* Another client calls session_manager.get_session(session_id, mode).
RaceOtherGetSession(session_id, mode) ==
    /\ sessions' = get_session(sessions, session_id, mode, now)
    /\ RaceCall("get_session by another client", session_id, mode)
    /\ UNCHANGED << last_cleanup, writer >>

\* cleanup_inactive_sessions(timeout_seconds): nothing guards the sessions,
\* a session that is popped stays with the client that holds it.
RaceCleanup(timeout_seconds) ==
    /\ IF TooEarly(now, last_cleanup)
       THEN UNCHANGED << sessions, last_cleanup, writer >>
       ELSE /\ sessions' = Swept(sessions, timeout_seconds, now)
            /\ last_cleanup' = now
            /\ writer' = [writer EXCEPT
                   !.attached = @ /\ writer.sid \in DOMAIN sessions']
    /\ RaceCall("cleanup_inactive_sessions", "none", ToString(timeout_seconds))

\* The client calls add_user_message on the session it holds: the session
\* of the registry changes if it is still that session.
RaceAddUserMessage ==
    /\ writer.pc = "holding"
    /\ IF writer.attached
       THEN /\ sessions' = [sessions EXCEPT ![writer.sid] =
                               add_user_message(@, WriterMessage, now)]
            /\ writer' = [writer EXCEPT !.pc = "wrote",
                                        !.obj = sessions'[writer.sid]]
       ELSE /\ writer' = [writer EXCEPT !.pc = "wrote",
                   !.obj = add_user_message(@, WriterMessage, now)]
            /\ UNCHANGED sessions
    /\ RaceCall("add_user_message", writer.sid, "0")
    /\ UNCHANGED last_cleanup

InitRace == Init /\ user_text = <<"h", "i">>

NextRace ==
    \/ \E session_id \in SessionIds : \E mode \in SmModes :
           RaceGetSession(session_id, mode)
    \/ \E session_id \in SessionIds : \E mode \in SmModes :
           RaceOtherGetSession(session_id, mode)
    \/ \E timeout_seconds \in Timeouts : RaceCleanup(timeout_seconds)
    \/ RaceAddUserMessage
    \/ Tick

SpecRace == InitRace /\ [][NextRace]_vars


\* ------------------------------------------------------------------------
\* Vocabulary of the properties
\* ------------------------------------------------------------------------

\* The entries of the send log of the given types, in order.
LogOf(types) == LET Is(e) == e.type \in types IN SelectSeq(sendLog, Is)

\* The positions of the send log.
LogIdx == 1..Len(sendLog)

\* Some send to the client has failed: the connection drop is known to
\* the coordinator.
SendFailed == \E i \in LogIdx : ~sendLog[i].ok

\* The turn is over.
Done == pc = "done"

\* The assistant facts of a fact list.
AssistantFacts(fs) == LET Is(f) == f.type = "assistant" IN SelectSeq(fs, Is)

\* The fact the generation endpoint records for the user message.
UserFact == [type |-> "user", content |-> user_text]

\* Sequence s read backwards.
Reverse(s) == [i \in 1..Len(s) |-> s[Len(s) + 1 - i]]

\* ------------------------------------------------------------------------
\* C1
\* ------------------------------------------------------------------------

\* C1: the tts_audio events of a turn are sent in strictly increasing
\* part_id order, whatever the completion order of the synthesis tasks.
C1_AudioInOrder ==
    \A i, j \in LogIdx :
        (i < j /\ sendLog[i].type = "tts_audio" /\ sendLog[j].type = "tts_audio")
            => sendLog[i].part < sendLog[j].part

\* Three or more tasks resolved in exactly reversed order and all their
\* audio was delivered.
C1_Witness ==
    /\ Done
    /\ Len(tts_tasks) >= 3
    /\ resolveOrder = Reverse([i \in 1..Len(tts_tasks) |-> i])
    /\ Len(LogOf({"tts_audio"})) = Len(tts_tasks)
    /\ \A i \in LogIdx : sendLog[i].ok

\* ------------------------------------------------------------------------
\* C2
\* ------------------------------------------------------------------------

\* The scenario: three segments, the second failed, the others succeeded,
\* the turn completed.
C2_Scenario ==
    /\ Done
    /\ outcome = "completed"
    /\ Len(tts_tasks) = 3
    /\ tts_tasks[1].state = "Ready"
    /\ tts_tasks[2].state \in {"None", "Exc"}
    /\ tts_tasks[3].state = "Ready"

\* The audio and error events of the turn, as <<type, part>>.
Delivered ==
    LET evs == LogOf({"tts_audio", "error"})
    IN  [i \in 1..Len(evs) |-> <<evs[i].type, evs[i].part>>]

\* C2 as claimed: audio 1, then a warning for 2, then audio 3.
C2_WarningInPlace ==
    C2_Scenario =>
        Delivered = << <<"tts_audio", 0>>, <<"error", -1>>, <<"tts_audio", 2>> >>

\* C2 (amended): when segment 2 fails while 1 and 3 succeed, the client
\* receives audio for segment 1, then audio for segment 3, then one warning:
\* the failure notification follows all the audio of the turn.
C2_WarningAfterAudio ==
    C2_Scenario =>
        /\ Delivered = << <<"tts_audio", 0>>, <<"tts_audio", 2>>, <<"error", -1>> >>
        /\ \A i \in LogIdx : sendLog[i].ok
        /\ \A i \in LogIdx :
               sendLog[i].type = "error" => sendLog[i].msg = "tts_warning"

C2_Witness ==
    /\ C2_Scenario
    /\ tts_tasks[2].state = "None"
    /\ Len(LogOf({"error"})) = 1

\* ------------------------------------------------------------------------
\* C3
\* ------------------------------------------------------------------------

\* C3: the failure of a segment does not abort the turn.  In a turn whose
\* generation stream ended and whose client sends all succeeded, every
\* segment that resolved to audio is delivered and stream_end is the last
\* event, whatever the other segments resolved to.
C3_FailureIsolated ==
    (Done /\ llm = "ended" /\ ~SendFailed) =>
        /\ outcome = "completed"
        /\ \A i \in 1..Len(tts_tasks) :
               tts_tasks[i].state = "Ready" =>
                   \E k \in LogIdx : /\ sendLog[k].type = "tts_audio"
                                     /\ sendLog[k].part = tts_tasks[i].part
        /\ sendLog[Len(sendLog)].type = "stream_end"

\* A completed turn with a segment that returned nothing, a segment that
\* raised, and a segment that was delivered.
C3_Witness ==
    /\ Done
    /\ llm = "ended"
    /\ ~SendFailed
    /\ \E i \in 1..Len(tts_tasks) : tts_tasks[i].state = "None"
    /\ \E i \in 1..Len(tts_tasks) : tts_tasks[i].state = "Exc"
    /\ \E i \in 1..Len(tts_tasks) : tts_tasks[i].state = "Ready"
    /\ Len(LogOf({"tts_audio"})) >= 1

\* ------------------------------------------------------------------------
\* C4
\* ------------------------------------------------------------------------

\* C4: once a send to the client has failed, no further send is attempted
\* in the turn.
C4_NoSendAfterFailure == [][SendFailed => sendLog' = sendLog]_vars

\* ------------------------------------------------------------------------
\* C5
\* ------------------------------------------------------------------------

\* C5: once a send to the client has failed, the coordinator reads no
\* further line of the generation stream, dispatches no further segment and
\* does not await the synthesis tasks.
C5_CancelOnDrop ==
    [][SendFailed =>
          /\ linesRead' = linesRead
          /\ Len(tts_tasks') = Len(tts_tasks)
          /\ ~(pc = "gather" /\ pc' = "deliver")]_vars

\* ------------------------------------------------------------------------
\* C6
\* ------------------------------------------------------------------------

\* C6: when the generation endpoint cannot be reached or answers with a
\* non-success status, the turn ends Errored with exactly one error
\* notification as its only send (delivered when the client is still
\* connected), no stream_end and no assistant fact.
C6_GenerationFailure ==
    (Done /\ llm \in {"connect_error", "status_error"}) =>
        /\ outcome = "errored"
        /\ Len(sendLog) = 1
        /\ sendLog[1].type = "error"
        /\ sendLog[1].ok = connected
        /\ AssistantFacts(facts) = AssistantFacts(PriorFacts)

C6_Witness ==
    /\ Done
    /\ llm = "status_error"
    /\ Len(sendLog) = 1
    /\ sendLog[1].ok

\* ------------------------------------------------------------------------
\* C7
\* ------------------------------------------------------------------------

\* C7: a failure of the model backend ends the turn with an error
\* notification and without stream_end.
C7_BackendFailureFatal ==
    (Done /\ backend = "failed") =>
        /\ LogOf({"error"}) # <<>>
        /\ LogOf({"stream_end"}) = <<>>

\* ------------------------------------------------------------------------
\* C8
\* ------------------------------------------------------------------------

\* C8: while the generation endpoint answered 200 and its stream has not
\* failed and the client is connected, the events sent are one stream_start
\* first, then the text_chunks, then the tts_audios, and in the finished
\* turn one stream_end last; every one of them carries the stream id.
C8_EventOrder ==
    (llm \in {"streaming", "ended"} /\ connected) =>
        /\ \A i \in LogIdx : (sendLog[i].type = "stream_start") <=> (i = 1)
        /\ \A i \in LogIdx :
               sendLog[i].type = "stream_end" => (i = Len(sendLog) /\ Done)
        /\ \A i, j \in LogIdx :
               (sendLog[i].type = "tts_audio" /\ sendLog[j].type = "text_chunk")
                   => j < i
        /\ \A i \in LogIdx :
               sendLog[i].type # "error" => sendLog[i].mid = stream_id
        /\ Done => /\ Len(LogOf({"stream_start"})) = 1
                   /\ Len(LogOf({"stream_end"})) = 1
                   /\ sendLog[Len(sendLog)].type = "stream_end"

C8_Witness ==
    /\ Done
    /\ llm = "ended"
    /\ connected
    /\ Len(LogOf({"text_chunk"})) >= 2
    /\ Len(LogOf({"tts_audio"})) >= 2

\* ------------------------------------------------------------------------
\* C9
\* ------------------------------------------------------------------------

\* The texts of the text_chunk events sent so far.
Relayed ==
    LET evs == LogOf({"text_chunk"}) IN [i \in 1..Len(evs) |-> evs[i].text]

\* C9: the accumulated response is the concatenation of the non-empty
\* chunks received, each chunk has been relayed as its own text_chunk by the
\* time the next line is read, and stream_end carries the accumulated
\* response.
C9_FullResponse ==
    /\ full_response = Flatten(rxChunks)
    /\ Relayed = rxChunks
    /\ \A i \in LogIdx :
           sendLog[i].type = "stream_end" => sendLog[i].text = Flatten(rxChunks)

C9_Witness ==
    /\ Done
    /\ outcome = "completed"
    /\ Len(rxChunks) >= 2
    /\ linesRead > Len(rxChunks)
    /\ sendLog[Len(sendLog)].text = Flatten(rxChunks)

\* ------------------------------------------------------------------------
\* C10
\* ------------------------------------------------------------------------

\* C10 as claimed: a completed turn has recorded the response once, after
\* the user message of the turn; an errored turn has recorded no response.
C10_CommitOnCompleted ==
    /\ (Done /\ outcome = "completed") =>
           facts = PriorFacts \o
                   << UserFact, [type |-> "assistant", content |-> full_response] >>
    /\ (Done /\ outcome = "errored") =>
           AssistantFacts(facts) = AssistantFacts(PriorFacts)

\* C10 (amended): a completed turn with a non-empty response has recorded
\* it once, after the user message of the turn; a completed turn with an
\* empty response and an errored turn have recorded no response.
C10_CommitNonEmpty ==
    /\ (Done /\ outcome = "completed" /\ full_response # <<>>) =>
           facts = PriorFacts \o
                   << UserFact, [type |-> "assistant", content |-> full_response] >>
    /\ (Done /\ outcome = "completed" /\ full_response = <<>>) =>
           facts = PriorFacts \o << UserFact >>
    /\ (Done /\ outcome = "errored") =>
           AssistantFacts(facts) = AssistantFacts(PriorFacts)

C10_Witness ==
    /\ Done
    /\ outcome = "completed"
    /\ full_response # <<>>
    /\ Len(facts) = Len(PriorFacts) + 2


\* ------------------------------------------------------------------------
\* C11  Segmentation is restartable: the sentences handed on chunk by chunk,
\*      followed by the final remainder, are the sentences that one call of
\*      split_into_sentences returns on the complete text.
\* ------------------------------------------------------------------------

\* The complete text fed so far.
SegInput == Flatten(seg_chunks)

C11_Restartable ==
    seg_flushed => seg_sentences = split_into_sentences(SegInput)

\* The example of the claim: the three chunks end with two sentences handed
\* on and the third chunk alone in the buffer.
C11_Example ==
    seg_chunks = << <<"a", ".", " ">>, <<"a", ".", " ">>, <<"a">> >>
        => /\ seg_sentences = << <<"a", ".">>, <<"a", ".">> >>
           /\ seg_buffer = <<"a">>


\* ------------------------------------------------------------------------
\* C12  Segmentation is lossless: the sentences handed on and the remainder
\*      carry every character of the chunks fed.
\* ------------------------------------------------------------------------

\* The text without its whitespace.
NoWhitespace(t) == LET Solid(x) == x \notin Whitespace IN SelectSeq(t, Solid)

\* What the segmenter has handed on, followed by what it still retains.
SegOutput ==
    Flatten(seg_sentences) \o (IF seg_flushed THEN <<>> ELSE seg_buffer)

\* As stated: the concatenation is the concatenation of the chunks.
C12_LosslessExact == SegOutput = SegInput

\* Amended: the two concatenations differ in whitespace only.
C12_LosslessButWhitespace == NoWhitespace(SegOutput) = NoWhitespace(SegInput)

\* Three chunks were fed, sentences were handed on before the flush and the
\* flush handed on a remainder.
C12_Witness ==
    /\ seg_flushed
    /\ Len(seg_chunks) = MaxSegChunks
    /\ Len(seg_sentences) >= 3
    /\ strip(seg_buffer) # <<>>
    /\ SegOutput # SegInput


\* ------------------------------------------------------------------------
\* Vocabulary of the properties of the ConversationManager
\* ------------------------------------------------------------------------

\* The history of cm, and its history before the last call.
History == cm.conversation_history

HistoryBefore == cm_prev.conversation_history

\* The last call added a message.
AfterAdd == cm_op.name \in {"add_user_message", "add_assistant_message"}

\* The history as the last add made it before trimming it: the message
\* added is the last entry of the history.
Added == Append(HistoryBefore, History[Len(History)])

\* The last add evicted something.
Evicted == AfterAdd /\ Len(History) < Len(Added)

OverBudget(h) == get_total_tokens(h) > MAX_HISTORY_TOKENS

\* Sequence a is the end of sequence b.
IsSuffix(a, b) ==
    Len(a) <= Len(b) /\ a = SubSeq(b, Len(b) - Len(a) + 1, Len(b))

\* Sequence a is b with some entries left out.
RECURSIVE IsSubseq(_, _)
IsSubseq(a, b) ==
    IF a = <<>> THEN TRUE
    ELSE IF b = <<>> THEN FALSE
    ELSE IF Head(a) = Head(b) THEN IsSubseq(Tail(a), Tail(b))
    ELSE IsSubseq(a, Tail(b))

\* The entries of h are the entries of the set S.
Range(h) == {h[i] : i \in 1..Len(h)}


\* ------------------------------------------------------------------------
\* C13  After every add_user_message and add_assistant_message the history
\*      is within MAX_HISTORY_TOKENS, or it is reduced to its floor.
\* ------------------------------------------------------------------------

\* As stated: the floor is exactly the system prompt and one
\* user/assistant pair.
C13_BudgetOrOnePair ==
    AfterAdd =>
        \/ ~OverBudget(History)
        \/ /\ Len(History) = 3
           /\ History[1].role = "system"
           /\ History[2].role = "user"
           /\ History[3].role = "assistant"

\* Amended: the floor is at most three entries.
C13_BudgetOrFloor ==
    AfterAdd => ~OverBudget(History) \/ Len(History) <= 3

\* An add took a history of five entries down to three, and the three are
\* still over the budget.
C13_Witness ==
    /\ AfterAdd
    /\ Len(Added) = 5
    /\ Len(History) = 3
    /\ OverBudget(History)


\* ------------------------------------------------------------------------
\* C14  After every add there are at most MAX_HISTORY_PAIRS user messages,
\*      what was evicted is older than what was kept, and what was kept is
\*      in its order; after three alternating pairs the history is the
\*      system prompt and the two most recent pairs.
\* ------------------------------------------------------------------------

\* After MAX_HISTORY_PAIRS + 1 alternating pairs of short messages, added to
\* the session as constructed, the history is the system prompt and the
\* last MAX_HISTORY_PAIRS pairs.
C14_Scenario ==
    cm_scn = 2 * (MAX_HISTORY_PAIRS + 1) =>
        /\ Len(History) = 1 + 2 * MAX_HISTORY_PAIRS
        /\ History[1] = Entry("system", cm.system_prompt)
        /\ \A k \in 1..(2 * MAX_HISTORY_PAIRS) :
               History[1 + k] =
                   Entry(IF k % 2 = 1 THEN "user" ELSE "assistant",
                         Message(2 + k, ShortChars))

\* As stated: the messages kept are the most recent ones.
C14_EvictsOldest ==
    /\ AfterAdd =>
           /\ UserCount(History) <= MAX_HISTORY_PAIRS
           /\ History[1] = Added[1]
           /\ IsSuffix(Tail(History), Tail(Added))
    /\ C14_Scenario

\* Amended: the messages kept are in their order, and every message evicted
\* is older than every user message kept.
C14_EvictsOldestPairs ==
    /\ AfterAdd =>
           /\ UserCount(History) <= MAX_HISTORY_PAIRS
           /\ History[1] = Added[1]
           /\ IsSubseq(History, Added)
           /\ \A i, j \in 1..Len(Added) :
                  /\ Added[i] \notin Range(History)
                  /\ Added[j] \in Range(History)
                  /\ Added[j].role = "user"
                  => i < j
    /\ C14_Scenario

\* The third alternating pair is complete.
C14_Witness ==
    /\ cm_scn = 2 * (MAX_HISTORY_PAIRS + 1)
    /\ cm_op.name = "add_assistant_message"
    /\ cm_op.arg = ToString(cm_scn)


\* ------------------------------------------------------------------------
\* C15  trim_history is idempotent: after it has run, running it again
\*      changes nothing of the session.
\* ------------------------------------------------------------------------

C15_TrimIdempotent ==
    /\ Trimmed(Trimmed(cm)) = Trimmed(cm)
    /\ cm_op.name = "trim_history" =>
           /\ Trimmed(cm) = cm
           /\ cm.mode = cm_prev.mode
           /\ cm.system_prompt = cm_prev.system_prompt
           /\ cm.last_activity_time = cm_prev.last_activity_time

\* trim_history was called later than the last activity, and it evicted.
C15_Witness ==
    /\ cm_op.name = "trim_history"
    /\ Len(History) < Len(HistoryBefore)
    /\ cm.last_activity_time < now


\* ------------------------------------------------------------------------
\* C16  After any sequence of calls the history is not empty and its first
\*      entry is the system message with the system prompt of the session;
\*      no eviction removes or moves it.
\* ------------------------------------------------------------------------

C16_SystemPromptFirst ==
    /\ History # <<>>
    /\ History[1] = Entry("system", cm.system_prompt)
    /\ \A i \in 2..Len(History) : History[i].role # "system"

\* An add evicted messages from the history of a session whose mode was
\* changed before, and messages are left.
C16_Witness ==
    /\ Evicted
    /\ cm.mode = "concise"
    /\ cm.last_activity_time > 0
    /\ Len(History) > 1


\* ------------------------------------------------------------------------
\* C17  change_mode makes the first entry the system prompt of the requested
\*      mode and leaves every other entry, their order and the time of the
\*      last activity as they were.
\* ------------------------------------------------------------------------

\* What change_mode does when it changes the mode.
ModeChangedTo(mode) ==
    /\ cm.mode = mode
    /\ cm.system_prompt = PromptOrDefault(mode)
    /\ History[1] = Entry("system", PromptOrDefault(mode))
    /\ Tail(History) = Tail(HistoryBefore)
    /\ cm.last_activity_time = cm_prev.last_activity_time

\* As stated: for every mode requested.
C17_ChangeModeAny ==
    cm_op.name = "change_mode" => ModeChangedTo(cm_op.arg)

\* Amended: for the modes that have a system prompt; a request for any other
\* mode changes nothing.
C17_ChangeModeKnown ==
    cm_op.name = "change_mode" =>
        IF cm_op.arg \in DOMAIN DEFAULT_SYSTEM_PROMPTS
        THEN ModeChangedTo(cm_op.arg)
        ELSE cm = cm_prev

\* The mode of a session with messages was changed to another mode, later
\* than its last activity.
C17_Witness ==
    /\ cm_op.name = "change_mode"
    /\ cm_op.arg \in DOMAIN DEFAULT_SYSTEM_PROMPTS
    /\ cm.mode # cm_prev.mode
    /\ Len(History) > 2
    /\ cm.last_activity_time < now


\* ------------------------------------------------------------------------
\* Vocabulary of the properties of the SessionManager
\* ------------------------------------------------------------------------

\* The last call was a load of the sessions file.
AfterLoad == sm_op.name = "load_sessions" /\ file.exists

\* The last call was get_session for an id that had a session.
AfterGetExisting == sm_op.name = "get_session" /\ sm_op.sid \in DOMAIN sm_prev

\* The last call was a sweep that ran, with the given timeout.
AfterSweep(timeout_seconds) ==
    /\ sm_op.name = "cleanup_inactive_sessions"
    /\ sm_op.arg = ToString(timeout_seconds)

\* How long session s had been idle at time t.
Idle(s, t) == t - s.last_activity_time


\* ------------------------------------------------------------------------
\* C18  A session survives to_dict followed by from_dict with its id, mode,
\*      system prompt, history and time of last activity, and saving the
\*      sessions and loading them restores the same sessions.
\* ------------------------------------------------------------------------

C18_RoundTrip ==
    /\ \A sid \in DOMAIN sessions :
           from_dict(to_dict(sessions[sid]), now) = sessions[sid]
    /\ Loaded(NoSessions, Saved(sessions), now) = sessions
    /\ AfterLoad =>
           /\ \A sid \in DOMAIN file.data :
                  /\ sid \in DOMAIN sessions
                  /\ to_dict(sessions[sid]) = file.data[sid]
           /\ sm_prev = NoSessions => DOMAIN sessions = DOMAIN file.data

\* A new SessionManager has loaded two sessions, one of them with a message
\* in its history and idle since before the load, one of them in a mode
\* that has no prompt.
C18_Witness ==
    /\ AfterLoad
    /\ sm_prev = NoSessions
    /\ DOMAIN sessions = SessionIds
    /\ \E sid \in SessionIds :
           /\ Len(sessions[sid].conversation_history) > 1
           /\ sessions[sid].last_activity_time < now
    /\ \E sid \in SessionIds : sessions[sid].mode \notin DOMAIN DEFAULT_SYSTEM_PROMPTS


\* ------------------------------------------------------------------------
\* C19  get_session is idempotent: for an id that has a session it leaves
\*      the sessions as they are, whatever the mode requested, and there is
\*      one session per id.
\* ------------------------------------------------------------------------

C19_GetSessionIdempotent ==
    /\ \A sid \in DOMAIN sessions : sessions[sid].session_id = sid
    /\ AfterGetExisting => sessions = sm_prev

\* get_session was called with another mode for a session that has a
\* message in its history and has been idle for a while.
C19_Witness ==
    /\ AfterGetExisting
    /\ sessions[sm_op.sid].mode # sm_op.arg
    /\ Len(sessions[sm_op.sid].conversation_history) > 1
    /\ sessions[sm_op.sid].last_activity_time < now


\* ------------------------------------------------------------------------
\* C20  A sweep that runs removes the sessions idle for longer than the
\*      timeout and no other, and leaves the sessions it keeps as they
\*      were.
\* ------------------------------------------------------------------------

C20_SweepRemovesInactive ==
    \A timeout_seconds \in Timeouts :
        AfterSweep(timeout_seconds) =>
            /\ DOMAIN sessions =
                   {sid \in DOMAIN sm_prev :
                        ~(Idle(sm_prev[sid], last_cleanup) > timeout_seconds)}
            /\ \A sid \in DOMAIN sessions : sessions[sid] = sm_prev[sid]

\* A sweep removed a session and kept one that had been idle for exactly the
\* timeout.
C20_Witness ==
    \E timeout_seconds \in Timeouts :
        /\ AfterSweep(timeout_seconds)
        /\ DOMAIN sm_prev = SessionIds
        /\ \E sid \in DOMAIN sessions :
               Idle(sessions[sid], last_cleanup) = timeout_seconds
        /\ \E sid \in DOMAIN sm_prev : sid \notin DOMAIN sessions


\* ------------------------------------------------------------------------
\* C21  Sweeps take effect at most once per cleanup interval: a call of
\*      cleanup_inactive_sessions less than one interval after the last
\*      effective sweep, or after the construction of the SessionManager,
\*      leaves the sessions and the time of the last sweep as they are.
\* ------------------------------------------------------------------------

\* The step is a call of cleanup_inactive_sessions.
SweepCalled ==
    /\ sm_op'.name \in {"cleanup_inactive_sessions",
                        "cleanup_inactive_sessions not due"}
    /\ sm_prev' = sessions

C21_SweepOncePerInterval ==
    [][ SweepCalled /\ now - last_cleanup < cleanup_interval
            => sessions' = sessions /\ last_cleanup' = last_cleanup ]_vars

\* A call that came too early left a session that was idle for longer than
\* the timeout of the call.
C21_Witness ==
    /\ sm_op.name = "cleanup_inactive_sessions not due"
    /\ now - last_cleanup < cleanup_interval
    /\ \E timeout_seconds \in Timeouts :
           /\ sm_op.arg = ToString(timeout_seconds)
           /\ \E sid \in DOMAIN sessions :
                  Idle(sessions[sid], now) > timeout_seconds


\* ------------------------------------------------------------------------
\* C22  The sweep does not race with a client of a session: a message added
\*      through a session got from the SessionManager is in the session the
\*      SessionManager holds for that id, under every interleaving of the
\*      sweep with get_session and add_user_message.
\* ------------------------------------------------------------------------

\* The last call was the add of the client.
AfterWriterAdd == writer.pc = "wrote" /\ sm_op.name = "add_user_message"

C22_NoLostAppend ==
    AfterWriterAdd =>
        /\ writer.sid \in DOMAIN sessions
        /\ LET h == sessions[writer.sid].conversation_history
           IN  h[Len(h)] = Entry("user", WriterMessage)
        /\ sessions[writer.sid] = writer.obj


\* ------------------------------------------------------------------------
\* C23
\* ------------------------------------------------------------------------

\* Some dispatched segment of the turn has failed: its task resolved to
\* None or to an exception.
SegmentFailed ==
    \E i \in 1..Len(tts_tasks) : tts_tasks[i].state \in {"None", "Exc"}

\* The positions of the send log that hold the synthesis warning.
Warnings ==
    {i \in LogIdx : sendLog[i].type = "error" /\ sendLog[i].msg = "tts_warning"}

\* The positions of the send log that hold a stream_end.
StreamEnds == {i \in LogIdx : sendLog[i].type = "stream_end"}

\* C23: segment failures are aggregated into a single warning.  At most one
\* synthesis warning is ever sent in a turn, it precedes stream_end, and it
\* is sent only if some dispatched segment failed; in a turn that reached
\* its stream_end, if some segment failed then exactly one warning was sent,
\* however many segments failed.
C23_SingleWarning ==
    /\ Cardinality(Warnings) <= 1
    /\ \A w \in Warnings : \A e \in StreamEnds : w < e
    /\ Warnings # {} => SegmentFailed
    /\ (\E e \in StreamEnds : sendLog[e].ok /\ SegmentFailed)
           => Cardinality(Warnings) = 1

\* A completed turn in which two segments failed, one by returning None and
\* one by raising, and one warning went out.
C23_Witness ==
    /\ Done
    /\ outcome = "completed"
    /\ \E i, j \in 1..Len(tts_tasks) :
           tts_tasks[i].state = "None" /\ tts_tasks[j].state = "Exc"
    /\ Cardinality(Warnings) = 1
    /\ \A w \in Warnings : sendLog[w].ok


\* ------------------------------------------------------------------------
\* C24
\* ------------------------------------------------------------------------

\* An unparsable line has been read.
MalformedSeen == skippedAt >= 0

\* The well-formed chunks received after the first unparsable line.
LaterChunks == SubSeq(rxChunks, skippedAt + 1, Len(rxChunks))

\* The last n entries of sequence s.
Last(s, n) == SubSeq(s, Len(s) - n + 1, Len(s))

\* The texts of the segments dispatched so far, in dispatch order.
SegmentTexts == [i \in 1..Len(tts_tasks) |-> tts_tasks[i].text]

\* C24: a streamed line that does not parse is skipped without aborting the
\* stream.  Once such a line has been read: the turn is not ended by it
\* (while the stream is open and no send has failed, the coordinator is
\* still reading); every well-formed chunk that came after it is
\* accumulated, relayed as a text_chunk and segmented (segments and retained
\* buffer hold the text of all chunks, whitespace apart); and the turn, when
\* the stream has ended and no send failed, is completed with a stream_end
\* whose full_response is the concatenation of the well-formed chunks.
C24_MalformedSkipped ==
    MalformedSeen =>
        /\ (llm = "streaming" /\ ~SendFailed) => pc = "streaming"
        /\ full_response = Flatten(rxChunks)
        /\ Last(Relayed, Len(LaterChunks)) = LaterChunks
        /\ (pc = "streaming" /\ ~SendFailed) =>
               NoWhitespace(Flatten(SegmentTexts) \o sentence_buffer)
                   = NoWhitespace(Flatten(rxChunks))
        /\ (Done /\ llm = "ended" /\ ~SendFailed) =>
               /\ outcome = "completed"
               /\ sendLog[Len(sendLog)].type = "stream_end"
               /\ sendLog[Len(sendLog)].text = Flatten(rxChunks)
               /\ NoWhitespace(Flatten(SegmentTexts))
                      = NoWhitespace(Flatten(rxChunks))

\* The first line of the stream did not parse, two chunks followed and were
\* segmented into three segments, and the turn completed with them.
C24_Witness ==
    /\ Done
    /\ outcome = "completed"
    /\ skippedAt = 0
    /\ Len(rxChunks) = 2
    /\ Len(tts_tasks) = 3
    /\ Len(LogOf({"text_chunk"})) = 2
    /\ sendLog[Len(sendLog)].text = Flatten(rxChunks)


\* ------------------------------------------------------------------------
\* An audio message: process_audio, which hands the transcript to
\* process_text
\* ------------------------------------------------------------------------

\* What payload["audio"] can be: absent or empty, not base64, fewer than
\* 1000 bytes, bytes that cannot be converted to WAV, a recording.
AudioPayloads == {"empty", "bad_base64", "short", "unconvertible", "audio"}

\* How the request to the speech-to-text service can fail: RequestError,
\* HTTPStatusError from raise_for_status, a body that is not JSON.
SttFailures == {"request_error", "status_error", "bad_json"}

\* The value of "transcription" in an answer of the service: absent or
\* empty, blank, an utterance with a leading blank.
Transcripts == { <<>>, <<" ">>, <<" ", "h", "i">> }

\* _send_transcription_error(websocket, message): one send attempt, whose
\* own failure is caught and logged.
send_transcription_error(log, conn, msg) ==
    SendAttempt(log, conn, Event("transcription_error", "none", <<>>, -1, msg))

\* The message process_audio gives for each way the payload is unusable.
PayloadError(payload) ==
    CASE payload = "empty"         -> "empty_payload"
      [] payload = "bad_base64"    -> "invalid_format"
      [] payload = "short"         -> "too_short"
      [] payload = "unconvertible" -> "conversion_failed"

\* The message process_audio gives for each failure of the service.
SttError(failure) ==
    CASE failure = "request_error" -> "stt_unreachable"
      [] failure = "status_error"  -> "stt_status"
      [] failure = "bad_json"      -> "unexpected"

\* Faulty variant of Understood: every answer of the service is taken as a
\* transcript.
Understood_Always(transcription) == TRUE

\* "if transcription:"
Understood(transcription) == transcription # <<>>

\* The audio message as process_audio receives it: nothing of the turn has
\* happened yet and there is no text.
AudioReceived ==
    /\ pc = "audio"
    /\ user_text = <<>>
    /\ stream_id = "none"
    /\ connected = TRUE
    /\ llm = "none"
    /\ backend = "ok"
    /\ linesRead = 0
    /\ skippedAt = -1
    /\ rxChunks = <<>>
    /\ full_response = <<>>
    /\ sentence_buffer = <<>>
    /\ tts_tasks = <<>>
    /\ tts_sent_count = 0
    /\ resolveOrder = <<>>
    /\ audio_results = <<>>
    /\ resultIdx = 1
    /\ tts_error_occurred = FALSE
    /\ sendLog = <<>>
    /\ facts = PriorFacts
    /\ outcome = "none"

\* The payload is decoded, measured and converted; an unusable payload is
\* answered with one transcription_error and process_audio returns.
AudioDecode(payload) ==
    /\ pc = "audio"
    /\ IF payload = "audio"
       THEN /\ pc' = "stt"
            /\ UNCHANGED << sendLog, outcome >>
       ELSE /\ sendLog' = send_transcription_error(sendLog, connected,
                              PayloadError(payload))
            /\ Finish("rejected")
    /\ UNCHANGED << libVars, envVars, connected, streamVars, tts_tasks,
                    resolveOrder, deliverVars, facts >>

\* The request to the speech-to-text service fails.
SttFail(failure) ==
    /\ pc = "stt"
    /\ sendLog' = send_transcription_error(sendLog, connected, SttError(failure))
    /\ Finish("rejected")
    /\ UNCHANGED << libVars, envVars, connected, streamVars, tts_tasks,
                    resolveOrder, deliverVars, facts >>

\* The service answers with transcript t, which is stripped: an empty one
\* is answered with one transcription_error.
SttAnswer(t) ==
    /\ pc = "stt"
    /\ LET transcription == strip(t)
       IN  IF Understood(transcription)
           THEN /\ user_text' = transcription
                /\ pc' = "transcribed"
                /\ UNCHANGED << sendLog, outcome >>
           ELSE /\ sendLog' = send_transcription_error(sendLog, connected,
                                  "not_understood")
                /\ Finish("rejected")
                /\ UNCHANGED user_text
    /\ UNCHANGED << libVars, stream_id, llm, backend, connected, streamVars,
                    tts_tasks, resolveOrder, deliverVars, facts >>

\* transcription_result is sent and process_text called with the transcript;
\* a failed send is an exception that reaches the last handler of
\* process_audio.
SendTranscriptionResult ==
    /\ pc = "transcribed"
    /\ LET log1 == SendAttempt(sendLog, connected,
                       Event("transcription_result", "none", user_text, -1, "none"))
       IN  IF connected
           THEN /\ sendLog' = log1
                /\ pc' = "idle"
                /\ UNCHANGED outcome
           ELSE /\ sendLog' = send_transcription_error(log1, connected, "unexpected")
                /\ Finish("rejected")
    /\ UNCHANGED << libVars, envVars, connected, streamVars, tts_tasks,
                    resolveOrder, deliverVars, facts >>

InitAudio ==
    AudioReceived /\ SegIdle /\ now = 0 /\ CmCreated("default") /\ SmCreated
        /\ WriterIdle /\ ExtIdle

\* process_audio, then process_text on the transcript, which is never blank.
NextAudio ==
    \/ \E payload \in AudioPayloads : AudioDecode(payload)
    \/ \E failure \in SttFailures : SttFail(failure)
    \/ \E t \in Transcripts : SttAnswer(t)
    \/ SendTranscriptionResult
    \/ BeginTurn
    \/ LlmConnectFail
    \/ \E recorded \in BOOLEAN : LlmStatusError(recorded)
    \/ LlmStatusOk
    \/ SendStreamStart
    \/ ReadBlankLine
    \/ ReadMalformedLine
    \/ ReadEmptyContentLine
    \/ \E c \in Chunks : ReadChunk(c)
    \/ ReadBackendError
    \/ EndOfStream
    \/ StreamFail
    \/ Gather
    \/ DeliverException
    \/ DeliverAudio
    \/ DeliverMissing
    \/ SendTtsWarning
    \/ SendStreamEnd
    \/ \E i \in 1..Len(tts_tasks) : \E reply \in TtsReplies : TtsResolve(i, reply)
    \/ ClientDisconnect

SpecAudio == InitAudio /\ [][NextAudio]_vars

\* ------------------------------------------------------------------------
\* C25
\* ------------------------------------------------------------------------

\* The positions of the send log that hold a transcription_error.
TranscriptionErrors == {i \in LogIdx : sendLog[i].type = "transcription_error"}

\* The request to the generation endpoint has been made.
GenerationRequested == llm # "none"

\* process_audio is past its transcription steps.
AudioSettled == pc \notin {"audio", "stt", "transcribed"}

\* C25: for an audio message a generation turn is started only when
\* transcription succeeded with a non-empty transcript.  A request to the
\* generation endpoint, and so a stream_start, is made only after a
\* transcription_result with a non-empty text was sent and with that text
\* as the user text, and then no transcription_error is sent; an audio
\* message that ends without transcript (empty payload, unusable payload,
\* failure of the transcription service, empty or blank transcript) has
\* produced exactly one transcription_error, no generation request and no
\* stream_start.
C25_AudioTurn ==
    /\ \A i \in LogIdx :
           sendLog[i].type = "transcription_result" => strip(sendLog[i].text) # <<>>
    /\ (GenerationRequested \/ LogOf({"stream_start"}) # <<>>) =>
           /\ sendLog[1].type = "transcription_result"
           /\ sendLog[1].ok
           /\ sendLog[1].text = user_text
           /\ user_text # <<>>
           /\ TranscriptionErrors = {}
    /\ Cardinality(TranscriptionErrors) <= 1
    /\ TranscriptionErrors # {} =>
           /\ Done
           /\ outcome = "rejected"
           /\ ~GenerationRequested
           /\ LogOf({"stream_start"}) = <<>>
    /\ (AudioSettled /\ LogOf({"transcription_result"}) = <<>>) =>
           /\ Cardinality(TranscriptionErrors) = 1
           /\ \A i \in LogIdx : sendLog[i].type = "transcription_error"
           /\ ~GenerationRequested

\* The service answered with a blank transcript: one transcription_error
\* reached the client and nothing else happened.
C25_Witness ==
    /\ Done
    /\ outcome = "rejected"
    /\ Len(sendLog) = 1
    /\ sendLog[1].type = "transcription_error"
    /\ sendLog[1].msg = "not_understood"
    /\ sendLog[1].ok
    /\ ~GenerationRequested


\* ------------------------------------------------------------------------
\* C26
\* ------------------------------------------------------------------------

\* The synthesis requests outstanding at the synthesis collaborator: the
\* tasks that have not resolved and whose cleaned text is not empty (a task
\* with an empty cleaned text returns without a request).
InFlight ==
    {i \in 1..Len(tts_tasks) :
        tts_tasks[i].state = "Pending" /\ clean_for_tts(tts_tasks[i].text) # <<>>}

\* C26: the dispatcher supports a maximum-in-flight bound, here a bound of
\* two: at no point of a turn are more than two synthesis requests
\* outstanding, whatever number of sentences the stream produces.
C26_InFlightBounded == Cardinality(InFlight) <= 2


\* ------------------------------------------------------------------------
\* C27
\* ------------------------------------------------------------------------

\* The condition of the token loop on history h.
TokenRoundDue(h) == OverBudget(h) /\ Len(h) > 3

\* Every round of the token loop that runs from history h on removes the
\* oldest user message and the assistant message that follows it, and
\* nothing else.
RECURSIVE OldestPairEachRound(_)
OldestPairEachRound(h) ==
    IF ~TokenRoundDue(h)
    THEN TRUE
    ELSE /\ UserCount(h) > 0
         /\ LET u == FirstUser(h)
            IN  /\ u < Len(h)
                /\ h[u + 1].role = "assistant"
                /\ TokenRound(h) = Pop(Pop(h, u), u)
         /\ OldestPairEachRound(TokenRound(h))

\* C27: each token-budget eviction step removes exactly the oldest user
\* message and the assistant message immediately following it, for every
\* history an add can meet, histories with two adjacent user messages
\* included.
C27_TokenEvictsOldestPair == AfterAdd => OldestPairEachRound(Added)


\* ------------------------------------------------------------------------
\* C28
\* ------------------------------------------------------------------------

\* Sequence a is the beginning of sequence b.
IsPrefix(a, b) == Len(a) <= Len(b) /\ a = SubSeq(b, 1, Len(a))

\* The final flush has dispatched the remainder of the buffer.
Flushed == llm = "ended" /\ strip(sentence_buffer) # <<>>

\* C28: sequence numbers are assigned in sentence production order.  The
\* i-th task created carries number i - 1 (from 0, in steps of 1, no gap
\* and no duplicate), the segments in that order spell the response from
\* its beginning, the flushed remainder is the task with the highest
\* number, and the counter equals the number of tasks created.
C28_SequenceNumbers ==
    /\ tts_sent_count = Len(tts_tasks)
    /\ \A i \in 1..Len(tts_tasks) : tts_tasks[i].part = i - 1
    /\ IsPrefix(NoWhitespace(Flatten(SegmentTexts)), NoWhitespace(full_response))
    /\ Flushed =>
           /\ tts_tasks # <<>>
           /\ tts_tasks[Len(tts_tasks)].text = strip(sentence_buffer)
           /\ \A i \in 1..Len(tts_tasks) :
                  tts_tasks[i].part <= tts_tasks[Len(tts_tasks)].part

\* A completed turn with two segments dispatched from the stream and the
\* remainder flushed as the third.
C28_Witness ==
    /\ Done
    /\ outcome = "completed"
    /\ Flushed
    /\ tts_sent_count = 3
    /\ tts_tasks[3].part = 2
    /\ tts_tasks[3].text = strip(sentence_buffer)


\* ------------------------------------------------------------------------
\* C29
\* ------------------------------------------------------------------------

\* The synthesis tasks that have not resolved.
Unresolved == {i \in 1..Len(tts_tasks) : tts_tasks[i].state = "Pending"}

\* The coordinator is in its streaming loop and the stream has a further
\* line for it.
LineReady == pc = "streaming" /\ backend = "ok" /\ linesRead < MaxLines

\* C29: dispatching a sentence never blocks the token-relay path.  Whenever
\* the stream has a further line, the coordinator can read it and relay
\* its chunk, whatever the state of the synthesis tasks dispatched before:
\* no text_chunk waits for a synthesis result.
C29_RelayNotBlocked ==
    LineReady => \A c \in Chunks : ENABLED ReadChunk(c)

\* Three chunks were read and relayed, the first and the second of them
\* dispatched a segment, and no synthesis task has resolved yet.
C29_Witness ==
    /\ pc = "streaming"
    /\ Len(rxChunks) = 3
    /\ Len(LogOf({"text_chunk"})) = 3
    /\ \A i \in LogIdx : sendLog[i].ok
    /\ Len(tts_tasks) = 3
    /\ Unresolved = 1..3
    /\ resolveOrder = <<>>


\* ------------------------------------------------------------------------
\* C30
\* ------------------------------------------------------------------------

\* The step in which the generation stream ends.
StreamEnding == llm = "streaming" /\ llm' = "ended"

\* The step in which the wait for the synthesis tasks returns.
AwaitReturning == pc = "gather" /\ pc' = "deliver"

\* C30: when the generation stream ends, a buffer that is not empty or
\* whitespace-only is dispatched, stripped, as exactly one final segment,
\* and an empty or whitespace-only buffer dispatches nothing; the wait for
\* the synthesis tasks comes only after that: it returns a result for
\* every task, the flushed one included, and no task is created later.
C30_FinalFlush ==
    [][ /\ StreamEnding =>
               /\ tts_tasks' =
                      IF strip(sentence_buffer) # <<>>
                      THEN Append(tts_tasks,
                               NewTask(strip(sentence_buffer), Len(tts_tasks),
                                       stream_id))
                      ELSE tts_tasks
               /\ audio_results' = <<>>
               /\ pc' = IF tts_tasks' # <<>> THEN "gather" ELSE "stream_end"
        /\ AwaitReturning =>
               /\ llm = "ended"
               /\ Len(audio_results') = Len(tts_tasks)
               /\ Unresolved = {}
        /\ llm = "ended" => Len(tts_tasks') = Len(tts_tasks) ]_vars

\* The stream ended on the buffer "a ": it was flushed as the segment "a",
\* which the coordinator now waits for.
C30_Witness ==
    /\ pc = "gather"
    /\ llm = "ended"
    /\ sentence_buffer = <<"a", " ">>
    /\ Len(tts_tasks) = 2
    /\ tts_tasks[2].text = <<"a">>
    /\ tts_tasks[2].state = "Pending"
    /\ audio_results = <<>>


\* ------------------------------------------------------------------------
\* clean_for_tts used on its own, on any short text
\* ------------------------------------------------------------------------

\* Longest text given to clean_for_tts.
MaxCleanLen == 5

\* The characters of the texts: a letter, the three whitespace characters
\* and a marker.
CleanChars == {"a", " ", "\n", "\t", "*"}

\* The texts given to clean_for_tts.
CleanTexts == UNION {[1..n -> CleanChars] : n \in 0..MaxCleanLen}

\* clean_for_tts is applied to the text, and then to its own result.
CleanForTts ==
    /\ Len(cleaning) \in 1..2
    /\ cleaning' = Append(cleaning, clean_for_tts(cleaning[Len(cleaning)]))
    /\ UNCHANGED << turnVars, writer, segVars, now, cmVars, smVars, connVars,
                    factVars, gen >>

InitClean ==
    /\ TurnIdle /\ user_text = <<"h", "i">>
    /\ SegIdle
    /\ now = 0
    /\ CmCreated("default")
    /\ SmCreated
    /\ WriterIdle
    /\ ConnAccepted
    /\ FactsIdle
    /\ NoRequest
    /\ \E text \in CleanTexts : cleaning = <<text>>

NextClean == CleanForTts

SpecClean == InitClean /\ [][NextClean]_vars

\* ------------------------------------------------------------------------
\* C31
\* ------------------------------------------------------------------------

\* No two whitespace characters of t are adjacent.
NoWhitespaceRun(t) ==
    \A i \in 1..(Len(t) - 1) : ~(t[i] \in Whitespace /\ t[i + 1] \in Whitespace)

\* C31: text cleanup collapses every run of whitespace and newlines to a
\* single space.  For every text the cleaned text has no two adjacent
\* whitespace characters, no newline and no marker, and cleaning the cleaned
\* text changes nothing.
C31_CleanCollapses ==
    /\ Len(cleaning) >= 2 =>
           /\ NoWhitespaceRun(cleaning[2])
           /\ \A i \in 1..Len(cleaning[2]) :
                  cleaning[2][i] # "\n" /\ cleaning[2][i] \notin Markers
    /\ Len(cleaning) >= 3 => cleaning[3] = cleaning[2]


\* ------------------------------------------------------------------------
\* The client connections: the receive loop of websocket_endpoint on each
\* connection, and the turns it runs
\* ------------------------------------------------------------------------

\* Most messages the clients send, all connections together.
MaxClientMessages == 3

\* The types of the messages a client sends.
ClientMessages == {"ping", "text", "audio"}

\* int(time.time() * 1000) at clock reading t: the number in the stream id
\* "stream_<number>" of a turn.
StreamIdAt(t) == t * 1000

\* One event sent on connection c by turn n of that connection (0: by the
\* receive loop itself).
ConnEvent(c, n, type, message_id) ==
    [conn |-> c, turn |-> n, type |-> type, message_id |-> message_id]

\* A turn in progress: its number on the connection, its position, its
\* stream id (-1 before it is drawn).
Turn(n, tpc, sid) == [n |-> n, pc |-> tpc, stream_id |-> sid]

\* Faulty variant of CanReceive: the turn is started as a task of its own
\* and the loop goes on receiving.
CanReceive_Spawned(open) == TRUE

\* "await process_text(...)" and "await process_audio(...)" inside the
\* receive loop: the loop gets to its next websocket.receive() only when
\* the call has returned.
CanReceive(open) == open = {}

\* The messages sent on connection c so far.
Sent(c) == Len(inbox[c]) + connState[c].received

\* The client of connection c sends a message.
ClientSend(c, m) ==
    /\ Sent("c1") + Sent("c2") < MaxClientMessages
    /\ inbox' = [inbox EXCEPT ![c] = Append(@, m)]
    /\ UNCHANGED << turnVars, libVarsButConn, connState, events >>

\* The receive loop of connection c reads the next message: a ping is
\* answered, a text message starts process_text, which draws its stream id
\* from the clock, an audio message starts process_audio.
Receive(c) ==
    /\ CanReceive(connState[c].open)
    /\ inbox[c] # <<>>
    /\ inbox' = [inbox EXCEPT ![c] = Tail(@)]
    /\ LET m == Head(inbox[c])
           n == connState[c].turns + 1
       IN  CASE m = "ping" ->
                  /\ events' = [events EXCEPT ![c] = Append(@, ConnEvent(c, 0, "pong", -1))]
                  /\ connState' = [connState EXCEPT ![c].received = @ + 1]
             [] m = "text" ->
                  /\ connState' = [connState EXCEPT
                         ![c].received = @ + 1,
                         ![c].turns = n,
                         ![c].open = @ \cup {Turn(n, "started", StreamIdAt(now))}]
                  /\ UNCHANGED events
             [] m = "audio" ->
                  /\ connState' = [connState EXCEPT
                         ![c].received = @ + 1,
                         ![c].turns = n,
                         ![c].open = @ \cup {Turn(n, "transcribing", -1)}]
                  /\ UNCHANGED events
    /\ UNCHANGED << turnVars, libVarsButConn >>

\* Turn t of connection c sends an event and goes on as turn u, or ends.
TurnStep(c, t, type, message_id, next) ==
    /\ t \in connState[c].open
    /\ events' = [events EXCEPT ![c] = Append(@, ConnEvent(c, t.n, type, message_id))]
    /\ connState' = [connState EXCEPT ![c].open = (@ \ {t}) \cup next]
    /\ UNCHANGED << turnVars, libVarsButConn, inbox >>

\* process_audio has a transcript: it is sent and process_text is called,
\* which draws its stream id from the clock.
TurnTranscribed(c, t) ==
    /\ t.pc = "transcribing"
    /\ TurnStep(c, t, "transcription_result", -1,
                {Turn(t.n, "started", StreamIdAt(now))})

\* process_audio has no transcript.
TurnTranscriptionError(c, t) ==
    /\ t.pc = "transcribing"
    /\ TurnStep(c, t, "transcription_error", -1, {})

\* stream_start announces the stream id of the turn.
TurnStreamStart(c, t) ==
    /\ t.pc = "started"
    /\ TurnStep(c, t, "stream_start", t.stream_id,
                {Turn(t.n, "streaming", t.stream_id)})

\* The turn fails: an error message is sent and process_text returns.
TurnError(c, t) ==
    /\ t.pc \in {"started", "streaming"}
    /\ TurnStep(c, t, "error", -1, {})

\* stream_end is sent and process_text returns.
TurnStreamEnd(c, t) ==
    /\ t.pc = "streaming"
    /\ TurnStep(c, t, "stream_end", t.stream_id, {})

InitConn ==
    /\ TurnIdle /\ user_text = <<"h", "i">>
    /\ SegIdle
    /\ now = 0
    /\ CmCreated("default")
    /\ SmCreated
    /\ WriterIdle
    /\ ExtIdle

NextConn ==
    \/ \E c \in Connections : \E m \in ClientMessages : ClientSend(c, m)
    \/ \E c \in Connections : Receive(c)
    \/ \E c \in Connections : \E t \in connState[c].open : TurnTranscribed(c, t)
    \/ \E c \in Connections : \E t \in connState[c].open :
           TurnTranscriptionError(c, t)
    \/ \E c \in Connections : \E t \in connState[c].open : TurnStreamStart(c, t)
    \/ \E c \in Connections : \E t \in connState[c].open : TurnError(c, t)
    \/ \E c \in Connections : \E t \in connState[c].open : TurnStreamEnd(c, t)
    \/ Tick

SpecConn == InitConn /\ [][NextConn]_vars

\* ------------------------------------------------------------------------
\* C32
\* ------------------------------------------------------------------------

\* The stream_start events sent, each by its connection and its position.
StreamStarts ==
    {ce \in Connections \X (1..(3 * MaxClientMessages)) :
        /\ ce[2] <= Len(events[ce[1]])
        /\ events[ce[1]][ce[2]].type = "stream_start"}

\* C32: every turn gets a unique stream id.  No two turns, on the same or
\* on different connections, announce the same message_id in stream_start.
C32_UniqueStreamId ==
    \A a, b \in StreamStarts :
        a # b => events[a[1]][a[2]].message_id # events[b[1]][b[2]].message_id


\* ------------------------------------------------------------------------
\* The turn with its scheduling: the coordinator keeps running, the
\* generation stream ends or fails, every synthesis call resolves
\* ------------------------------------------------------------------------

\* Longest generation stream, in lines.
MaxLiveLines == 2

\* The chunks of the stream: each completes a sentence and begins another.
LiveChunks == { <<"a", ".", " ", "a">> }

\* The stream has a further line.
LineArrives == linesRead < MaxLiveLines

\* What the coordinator does by itself.
Coordinator ==
    \/ IgnoreEmptyText
    \/ BeginTurn
    \/ SendStreamStart
    \/ Gather
    \/ DeliverException
    \/ DeliverAudio
    \/ DeliverMissing
    \/ SendTtsWarning
    \/ SendStreamEnd

\* The generation endpoint answers the request, one way or another
\* (client.stream has a timeout of 45 seconds).
LlmAnswers ==
    \/ LlmConnectFail
    \/ \E recorded \in BOOLEAN : LlmStatusError(recorded)
    \/ LlmStatusOk

\* The generation stream ends or fails.
StreamCloses == EndOfStream \/ StreamFail

\* A synthesis call resolves (client.post has a timeout of 20 seconds, which
\* is a RequestError).
TtsResolves ==
    \E i \in 1..Len(tts_tasks) : \E reply \in TtsReplies : TtsResolve(i, reply)

NextLive ==
    \/ Coordinator
    \/ LlmAnswers
    \/ LineArrives /\ ReadMalformedLine
    \/ LineArrives /\ \E c \in LiveChunks : ReadChunk(c)
    \/ LineArrives /\ ReadBackendError
    \/ StreamCloses
    \/ TtsResolves
    \/ ClientDisconnect

\* The coroutine of the turn is scheduled whenever it can run, and the
\* collaborators keep to their time bounds.
Fairness ==
    /\ WF_vars(Coordinator)
    /\ WF_vars(LlmAnswers)
    /\ WF_vars(StreamCloses)
    /\ WF_vars(TtsResolves)

SpecLive == Init /\ [][NextLive]_vars /\ Fairness

\* ------------------------------------------------------------------------
\* C33
\* ------------------------------------------------------------------------

\* The turn has started: its stream id is drawn.
Started == stream_id # "none"

\* The turn is over, completed with its stream_end sent or errored with an
\* error message sent, and process_text has returned.
Finished ==
    /\ Done
    /\ \/ outcome = "completed" /\ sendLog[Len(sendLog)].type = "stream_end"
       \/ outcome = "errored" /\ sendLog[Len(sendLog)].type = "error"

\* C33: every turn terminates.  Provided the generation stream eventually
\* ends or fails and every synthesis call eventually resolves or times
\* out, a started turn eventually is completed (stream_end sent) or
\* errored (error sent) and has returned.
C33_TurnTerminates == Started ~> Finished

\* A turn that waited for two segments, one of which timed out, and
\* completed.
C33_Witness ==
    /\ Finished
    /\ outcome = "completed"
    /\ Len(tts_tasks) >= 2
    /\ \E i \in 1..Len(tts_tasks) : tts_tasks[i].state = "None"
    /\ \E i \in 1..Len(tts_tasks) : tts_tasks[i].state = "Ready"


\* ------------------------------------------------------------------------
\* C34
\* ------------------------------------------------------------------------

\* The receive loop of connection c reads a message in this step.
Reads(c) == inbox[c] # <<>> /\ inbox'[c] = Tail(inbox[c])

\* The events of log are grouped by turn: between two events of one turn
\* there is no event of another turn and no pong.
TurnsApart(log) ==
    \A i, j, k \in 1..Len(log) :
        (i < j /\ j < k /\ log[i].turn # 0 /\ log[i].turn = log[k].turn)
            => log[j].turn = log[i].turn

\* C34: turns on one client connection are strictly sequential.  The
\* receive loop reads a message, a ping included, only when no turn of the
\* connection is in progress; at most one turn per connection is in
\* progress at any time; and the events of two turns of a connection never
\* interleave.
C34_TurnsSequential ==
    [][ \A c \in Connections :
            /\ Reads(c) => connState[c].open = {}
            /\ Cardinality(connState'[c].open) <= 1
            /\ TurnsApart(events'[c]) ]_vars

\* The second turn of a connection is streaming, after its first turn has
\* ended, while a ping of the client waits to be read.
C34_Witness ==
    /\ connState["c1"].turns = 2
    /\ \E t \in connState["c1"].open : t.n = 2 /\ t.pc = "streaming"
    /\ inbox["c1"] = <<"ping">>
    /\ Len(events["c1"]) = 3
    /\ events["c1"][2].type = "stream_end"


\* ------------------------------------------------------------------------
\* C35
\* ------------------------------------------------------------------------

\* A tts_audio event has been sent.
AudioSent == LogOf({"tts_audio"}) # <<>>

\* C35: no tts_audio event is sent before the generation stream has ended
\* and every dispatched synthesis task of the turn has resolved.  While a
\* segment is unresolved no audio has been sent, not even for segments
\* with smaller sequence numbers that have resolved already.
C35_AudioAfterAll ==
    /\ AudioSent => (llm = "ended" /\ Unresolved = {})
    /\ \A i, j \in 1..Len(tts_tasks) :
           (i < j /\ tts_tasks[i].state = "Ready" /\ tts_tasks[j].state = "Pending")
               => ~AudioSent

\* The stream has ended and the first segment has its audio, but the third
\* is still unresolved: the coordinator waits and has sent no audio.
C35_Witness ==
    /\ pc = "gather"
    /\ llm = "ended"
    /\ connected
    /\ Len(tts_tasks) = 3
    /\ tts_tasks[1].state = "Ready"
    /\ tts_tasks[3].state = "Pending"
    /\ ~AudioSent


\* ------------------------------------------------------------------------
\* C36
\* ------------------------------------------------------------------------

\* The text of the segments dispatched, in sequence order.
Spoken == Flatten(SegmentTexts)

\* C36: no spoken content is lost or duplicated by segmentation.  In every
\* turn whose generation stream has ended, the texts of all the segments
\* dispatched, concatenated in sequence order, are the accumulated
\* response, whitespace apart.
C36_NothingLost ==
    llm = "ended" => NoWhitespace(Spoken) = NoWhitespace(full_response)

\* A completed turn of three segments whose texts differ from the response
\* in whitespace.
C36_Witness ==
    /\ Done
    /\ outcome = "completed"
    /\ Len(tts_tasks) = 3
    /\ Spoken # full_response
    /\ NoWhitespace(Spoken) = NoWhitespace(full_response)


\* ------------------------------------------------------------------------
\* C37
\* ------------------------------------------------------------------------

\* The segments dispatched whose text is empty after cleanup.
CleanedOut ==
    {i \in 1..Len(tts_tasks) : clean_for_tts(tts_tasks[i].text) = <<>>}

\* stream_end has reached the client.
StreamEndSent == \E e \in StreamEnds : sendLog[e].ok

\* C37: a dispatched segment whose text becomes empty after cleanup
\* consumes a sequence number, never gets a result from the synthesis
\* collaborator (it resolves to None whatever the collaborator would
\* answer), and is treated as a failed segment: no tts_audio is sent for
\* it, and a turn that reaches its stream_end has sent the synthesis
\* warning.
C37_CleanedOutFails ==
    \A i \in CleanedOut :
        /\ tts_tasks[i].part = i - 1
        /\ tts_sent_count >= i
        /\ tts_tasks[i].state \in {"Pending", "None"}
        /\ \A k \in LogIdx :
               sendLog[k].type = "tts_audio" => sendLog[k].part # i - 1
        /\ StreamEndSent => Warnings # {}

\* A completed turn whose response was markers and blanks only: its one
\* segment took sequence number 0, resolved to None, no audio was sent and
\* the warning was.
C37_Witness ==
    /\ Done
    /\ outcome = "completed"
    /\ CleanedOut = {1}
    /\ tts_tasks[1].text = <<"*", " ", "*">>
    /\ tts_tasks[1].state = "None"
    /\ tts_sent_count = 1
    /\ LogOf({"tts_audio"}) = <<>>
    /\ Cardinality(Warnings) = 1


\* ------------------------------------------------------------------------
\* C38
\* ------------------------------------------------------------------------

\* The assistant facts recorded during the turn.
Committed == Len(AssistantFacts(facts)) - Len(AssistantFacts(PriorFacts))

\* C38 as claimed: an assistant fact is recorded only after the stream_end
\* send returned; a turn that failed has recorded its user message and no
\* assistant message; at most one assistant fact is recorded per turn.
C38_CommitAfterStreamEnd ==
    /\ Committed > 0 => StreamEndSent
    /\ (Done /\ outcome = "errored") => facts = PriorFacts \o << UserFact >>
    /\ Committed <= 1

\* C38 (amended): an assistant fact is recorded only after the stream_end
\* send returned, and at most one per turn; a turn that failed has recorded
\* no assistant message, and has recorded its user message when the
\* generation endpoint answered 200, but nothing at all when the endpoint
\* could not be reached.
C38_CommitAfterEndpoint ==
    /\ Committed > 0 => StreamEndSent
    /\ Committed <= 1
    /\ (Done /\ outcome = "errored") =>
           /\ Committed = 0
           /\ llm \notin {"connect_error", "status_error"} =>
                  facts = PriorFacts \o << UserFact >>
           /\ llm = "connect_error" => facts = PriorFacts
           /\ llm = "status_error" =>
                  facts \in {PriorFacts, PriorFacts \o << UserFact >>}

\* The stream_end send of a turn with a response failed: the user message
\* is recorded, the response is not.
C38_Witness ==
    /\ Done
    /\ outcome = "errored"
    /\ StreamEnds # {}
    /\ ~StreamEndSent
    /\ full_response # <<>>
    /\ facts = PriorFacts \o << UserFact >>


\* ------------------------------------------------------------------------
\* The fact store used by two processes (SpecFacts)
\*
\* add_user_fact runs in the generation service and add_assistant_fact in
\* the connection backend: two processes with the same facts file for one
\* user id and no lock.  Inside one process a call runs to its end without
\* yielding; the file operations of the two processes interleave.
\* ------------------------------------------------------------------------

\* Largest number of facts one process adds.
MaxAdds == 2

\* The type each process records.
FactType(p) == IF p = "llm_service" THEN "user" ELSE "assistant"

\* fact_entry of the n-th call of process p; the timestamp tells the calls
\* of one process apart.
FactEntry(p, n) ==
    [type |-> FactType(p), content |-> <<"h", "i">>, timestamp |-> n]

\* _load_facts: the list in the file; the empty list when the file holds no
\* valid JSON, as it does between the open for writing and the dump.
load_facts(f) == IF f.valid THEN f.facts ELSE <<>>

\* The call is made and fact_entry built.
AddFact(p) ==
    /\ adders[p].pc = "idle"
    /\ adders[p].added < MaxAdds
    /\ adders' = [adders EXCEPT ![p].pc = "load"]
    /\ UNCHANGED << turnVars, writer, segVars, now, cmVars, smVars, cleaning,
                    connVars, stored, gen >>

\* facts = _load_facts(user_id); facts.append(fact_entry)
LoadFacts(p) ==
    /\ adders[p].pc = "load"
    /\ adders' = [adders EXCEPT
                     ![p].pc = "save",
                     ![p].facts = Append(load_facts(stored),
                                         FactEntry(p, adders[p].added + 1))]
    /\ UNCHANGED << turnVars, writer, segVars, now, cmVars, smVars, cleaning,
                    connVars, stored, gen >>

\* _save_facts, open(facts_path, 'w'): the file is truncated.
OpenForWriting(p) ==
    /\ adders[p].pc = "save"
    /\ stored' = [valid |-> FALSE, facts |-> <<>>]
    /\ adders' = [adders EXCEPT ![p].pc = "dump"]
    /\ UNCHANGED << turnVars, writer, segVars, now, cmVars, smVars, cleaning,
                    connVars, gen >>

\* _save_facts, json.dump(facts, f) and close: the file holds the list of
\* the caller, and the call returns.
DumpFacts(p) ==
    /\ adders[p].pc = "dump"
    /\ stored' = [valid |-> TRUE, facts |-> adders[p].facts]
    /\ adders' = [adders EXCEPT ![p].pc = "idle",
                                ![p].added = adders[p].added + 1]
    /\ UNCHANGED << turnVars, writer, segVars, now, cmVars, smVars, cleaning,
                    connVars, gen >>

InitFacts ==
    /\ TurnIdle /\ user_text = <<"h", "i">>
    /\ SegIdle
    /\ now = 0
    /\ CmCreated("default")
    /\ SmCreated
    /\ WriterIdle
    /\ ExtIdle

NextFacts ==
    \/ \E p \in Processes : AddFact(p)
    \/ \E p \in Processes : LoadFacts(p)
    \/ \E p \in Processes : OpenForWriting(p)
    \/ \E p \in Processes : DumpFacts(p)

SpecFacts == InitFacts /\ [][NextFacts]_vars

\* ------------------------------------------------------------------------
\* C39
\* ------------------------------------------------------------------------

\* The facts whose add call has returned.
AddedFacts ==
    {FactEntry(p, n) : p \in Processes, n \in 1..MaxAdds} \cap
    UNION {{FactEntry(p, n) : n \in 1..adders[p].added} : p \in Processes}

\* How often fact f is in list fs.
Occurrences(f, fs) == Cardinality({i \in 1..Len(fs) : fs[i] = f})

\* No add call is in progress.
AddersIdle == \A p \in Processes : adders[p].pc = "idle"

\* C39: no recorded fact is lost under concurrency: whenever no add call
\* is in progress, the stored list holds every fact added so far exactly
\* once, however the calls of the two processes interleaved.
C39_NoFactLost ==
    AddersIdle =>
        /\ stored.valid
        /\ \A f \in AddedFacts : Occurrences(f, stored.facts) = 1


\* ------------------------------------------------------------------------
\* The request built by generate_endpoint (SpecGen)
\* ------------------------------------------------------------------------

\* Largest number of messages in the request received.
MaxMsgs == 2

\* The messages a request can hold: any role, with or without content.
Msgs == [role : {"system", "user", "assistant"}, content : {<<>>, <<"h", "i">>}]

\* payload["messages"] as received.
Requests == UNION {[1..n -> Msgs] : n \in 0..MaxMsgs}

\* What summarize_facts, handle_message and get_real_world_context can
\* return: nothing, or a text of their own.
Summaries == {<<>>, <<"F">>}
Profiles  == {<<>>, <<"P">>}
Contexts  == {<<>>, <<"T">>}

\* Faulty variant of list_insert: the item goes to the end.
list_insert_Append(list, i, x) == Append(list, x)

\* list.insert(i, x): a negative index counts from the end, and an index
\* outside the list is clamped to it.
list_insert(list, i, x) ==
    LET n == Len(list)
        k == IF i < 0
             THEN (IF n + i < 0 THEN 0 ELSE n + i)
             ELSE (IF i > n THEN n ELSE i)
    IN  SubSeq(list, 1, k) \o << x >> \o SubSeq(list, k + 1, n)

\* The content of the last message when it is a user message, else empty.
user_message_content(messages) ==
    IF messages # <<>> /\ messages[Len(messages)].role = "user"
    THEN messages[Len(messages)].content
    ELSE <<>>

SystemMessage(content) == [role |-> "system", content |-> content]

\* payload["messages"] after the injections of generate_endpoint.
generate_messages(messages, facts_summary, user_context, context) ==
    IF user_message_content(messages) = <<>>
    THEN messages
    ELSE LET m1 == IF facts_summary # <<>>
                   THEN list_insert(messages, -1, SystemMessage(facts_summary))
                   ELSE messages
             m2 == IF user_context # <<>>
                   THEN list_insert(m1, -1, SystemMessage(user_context))
                   ELSE m1
         IN  IF context # <<>>
             THEN list_insert(m2, -1, SystemMessage(context))
             ELSE m2

\* The endpoint handles the request up to the streaming response.
GenerateEndpoint(facts_summary, user_context, context) ==
    /\ gen.stage = "received"
    /\ gen' = [stage    |-> "built",
               received |-> gen.received,
               messages |-> generate_messages(gen.received, facts_summary,
                                              user_context, context),
               injected |-> << facts_summary, user_context, context >>]
    /\ UNCHANGED << turnVars, writer, segVars, now, cmVars, smVars, cleaning,
                    connVars, factVars >>

InitGen ==
    /\ TurnIdle /\ user_text = <<"h", "i">>
    /\ SegIdle
    /\ now = 0
    /\ CmCreated("default")
    /\ SmCreated
    /\ WriterIdle
    /\ cleaning = <<>>
    /\ ConnAccepted
    /\ FactsIdle
    /\ \E messages \in Requests :
           gen = [stage |-> "received", received |-> messages,
                  messages |-> messages, injected |-> <<>>]

NextGen ==
    \E facts_summary \in Summaries : \E user_context \in Profiles :
        \E context \in Contexts :
            GenerateEndpoint(facts_summary, user_context, context)

SpecGen == InitGen /\ [][NextGen]_vars

\* ------------------------------------------------------------------------
\* C40
\* ------------------------------------------------------------------------

\* The system messages the endpoint had to inject, in the order facts
\* summary, user profile, tool context, the empty ones left out.
Injected ==
    LET NonEmpty(m) == m.content # <<>>
    IN  SelectSeq([i \in 1..Len(gen.injected) |-> SystemMessage(gen.injected[i])],
                  NonEmpty)

\* C40: the request built by the generate endpoint keeps the current user
\* message as the last message; the injected system messages (facts
\* summary, then user profile, then tool context, each only when
\* non-empty) stand immediately before it in that order, and the messages
\* present before keep their order in front of them.
C40_UserMessageLast ==
    (gen.stage = "built" /\ user_message_content(gen.received) # <<>>) =>
        LET n == Len(gen.received)
            r == gen.messages
        IN  /\ Len(r) = n + Len(Injected)
            /\ r[Len(r)] = gen.received[n]
            /\ SubSeq(r, n, Len(r) - 1) = Injected
            /\ SubSeq(r, 1, n - 1) = SubSeq(gen.received, 1, n - 1)

\* A request of several messages ending with the user message got all
\* three system messages.
C40_Witness ==
    /\ gen.stage = "built"
    /\ Len(gen.received) >= 2
    /\ user_message_content(gen.received) # <<>>
    /\ Len(Injected) = 3
    /\ Len(gen.messages) = Len(gen.received) + 3

====
